---- MODULE Spec2Model ----
(***************************************************************************)
(* JupyterCluster: the hub lifecycle engine (HubInstance, HubSpawner,      *)
(* JupyterCluster.create_hub/delete_hub and the API / web handlers that    *)
(* drive them), modelled as a state machine.                               *)
(*                                                                         *)
(* Text is a sequence of pieces (characters for names, words for tool      *)
(* output), so that concatenation is \o and "x in text" is Contains.       *)
(* A configuration tree is a function from top-level keys to nodes; a node *)
(* is a record [k, v] whose k names the Python type of the value v.        *)
(***************************************************************************)
EXTENDS Integers, Sequences, FiniteSets, TLC

\* ------------------------------------------------------------------ text

\* Python's `sub in s` on text
Contains(s, sub) ==
    \E i \in 0..(Len(s) - Len(sub)) : SubSeq(s, i + 1, i + Len(sub)) = sub

\* str.lower() on one word: every word with a capital letter that the texts
\* of this module hold is listed; a word without one is its own lower()
LowerWord(w) ==
    CASE w = "Not" -> "not"
      [] w = "NOT" -> "not"
      [] w = "Found" -> "found"
      [] w = "FOUND" -> "found"
      [] w = "Release" -> "release"
      [] w = "Error:" -> "error:"
      [] w = "JupyterHub" -> "jupyterhub"
      [] w = "Kubernetes" -> "kubernetes"
      [] w = "UPGRADE" -> "upgrade"
      [] w = "FAILED" -> "failed"
      [] w = "Failed" -> "failed"
      [] w = "Forbidden" -> "forbidden"
      [] w = "Helm deletion failed:" -> "helm deletion failed:"
      [] w = "Helm deployment failed:" -> "helm deployment failed:"
      [] w = "Namespace" -> "namespace"
      [] w = "No" -> "no"
      [] w = "Please" -> "please"
      [] w = "Reason:" -> "reason:"
      [] w = "Service" -> "service"
      [] w = "Traceback:" -> "traceback:"
      [] w = "TypeError" -> "typeerror"
      [] w = "TimeoutError" -> "timeouterror"
      [] w = "IndexError" -> "indexerror"
      [] w = "ValueError" -> "valueerror"
      [] w = "InvalidRequestError" -> "invalidrequesterror"
      [] w = "KeyError" -> "keyerror"
      [] w = "Invalid namespace name:" -> "invalid namespace name:"
      [] w = "User" -> "user"
      [] w = "JupyterCluster" -> "jupytercluster"
      [] w = "Running" -> "running"
      [] w = "Pending" -> "pending"
      [] w = "None" -> "none"
      [] w = "[Errno 28]" -> "[errno 28]"
      [] w = "[Errno 2]" -> "[errno 2]"
      [] w = "'NoneType'" -> "'nonetype'"
      [] w = "A" -> "a"
      [] w = "Z" -> "z"
      [] OTHER -> w

\* str(n) of an integer, digit by digit
RECURSIVE Str(_)
Str(n) ==
    IF n < 0 THEN <<"-">> \o Str(0 - n)
    ELSE IF n < 10
    THEN <<CASE n = 0 -> "0" [] n = 1 -> "1" [] n = 2 -> "2" [] n = 3 -> "3"
             [] n = 4 -> "4" [] n = 5 -> "5" [] n = 6 -> "6" [] n = 7 -> "7"
             [] n = 8 -> "8" [] OTHER -> "9">>
    ELSE Str(n \div 10) \o Str(n % 10)

\* str.lower() on text
Lower(s) == [i \in 1..Len(s) |-> LowerWord(s[i])]

\* ------------------------------------------------------------------ configuration trees

MapN(f) == [k |-> "map", v |-> f]
StrN(s) == [k |-> "str", v |-> s]
IntN(i) == [k |-> "int", v |-> i]
BoolN(b) == [k |-> "bool", v |-> b]
ListN(q) == [k |-> "list", v |-> q]

\* the empty dict {}
EmptyDict == [x \in {} |-> MapN(<<>>)]

\* the one element of a one-element set. Only({F(x) : x \in {e}}) is F(e) with
\* e computed once, however often F uses its argument.
Only(S) == CHOOSE x \in S : TRUE

\* isinstance(n, dict)
IsDict(n) == n.k = "map"

\* bool(n)
Truthy(n) ==
    CASE n.k = "map" -> DOMAIN n.v # {}
      [] n.k = "list" -> Len(n.v) > 0
      [] n.k = "str" -> n.v # ""
      [] n.k = "int" -> n.v # 0
      [] n.k = "bool" -> n.v
      [] OTHER -> FALSE

\* None, as the result of dict.get(key) on a missing key
NoneN == [k |-> "none", v |-> 0]

\* d.get(key, default)
DictGet(d, key, default) == IF key \in DOMAIN d THEN d[key] ELSE default

\* del d[key]
Del(d, key) == [x \in (DOMAIN d) \ {key} |-> d[x]]

\* d[key] = val
Put(d, key, val) == [x \in (DOMAIN d) \cup {key} |-> IF x = key THEN val ELSE d[x]]

\* {**a}; .update(b)
Merge(a, b) == [x \in (DOMAIN a) \cup (DOMAIN b) |-> IF x \in DOMAIN b THEN b[x] ELSE a[x]]

\* d, on the keys in `keys` only
Restrict(d, keys) == [x \in (DOMAIN d) \cap keys |-> d[x]]

\* HubSpawner.allowed_helm_keys
AllowedHelmKeys ==
    {"hub", "proxy", "singleuser", "auth", "rbac", "ingress", "httpRoute",
     "scheduling", "prePuller", "cull"}

\* the live cluster as the sanitizer reads it: storage class names, the label
\* maps of the nodes, and whether the listing calls fail
ClusterView(sc, scFails, nodes, nodesFail) ==
    [sc |-> sc, scFails |-> scFails, nodes |-> nodes, nodesFail |-> nodesFail]

\* HubSpawner._check_storage_class_exists
CheckStorageClassExists(cl, storage_class) ==
    /\ ~cl.scFails
    /\ storage_class.k = "str"
    /\ storage_class.v \in cl.sc

\* one node against the required labels (pairs <<key, value>>, a later pair
\* for a key replacing an earlier one, as dict assignment does)
NodeHasAll(node_labels, required_labels) ==
    \A i \in 1..Len(required_labels) :
        LET key == required_labels[i][1]
            value == required_labels[i][2]
            last == \A j \in (i + 1)..Len(required_labels) : required_labels[j][1] # key
        IN last =>
            /\ key.k = "str"
            /\ key.v \in DOMAIN node_labels
            /\ IF value.k = "list"
               THEN \E j \in 1..Len(value.v) : value.v[j] = StrN(node_labels[key.v])
               ELSE value = StrN(node_labels[key.v])

\* HubSpawner._check_node_labels_exist
CheckNodeLabelsExist(cl, required_labels) ==
    /\ ~cl.nodesFail
    /\ \E node_labels \in cl.nodes : NodeHasAll(node_labels, required_labels)

\* iterating a node with `for`: a list gives its items; text and dicts give
\* pieces that are no dicts; numbers cannot be iterated
Iterable(n) == n.k \in {"list", "str", "map"}
Items(n) == IF n.k = "list" THEN n.v ELSE <<>>

\* the label one match expression adds, if any
ExprLabel(expr) ==
    IF /\ IsDict(expr)
       /\ DictGet(expr.v, "operator", NoneN) = StrN("In")
       /\ Truthy(DictGet(expr.v, "key", NoneN))
       /\ Truthy(DictGet(expr.v, "values", ListN(<<>>)))
    THEN << <<expr.v["key"], expr.v["values"]>> >>
    ELSE <<>>

\* the labels one matchExpressions list adds, in order
RECURSIVE ExprLabels(_)
ExprLabels(exprs) ==
    IF exprs = <<>> THEN <<>>
    ELSE ExprLabel(Head(exprs)) \o ExprLabels(Tail(exprs))

\* the labels one item of extraNodeAffinity.required adds
TermLabels(me) ==
    IF IsDict(me) /\ "matchExpressions" \in DOMAIN me.v
    THEN ExprLabels(Items(me.v["matchExpressions"]))
    ELSE <<>>

\* the required labels of extraNodeAffinity.required (a list), in order
RECURSIVE RequiredLabels(_)
RequiredLabels(required) ==
    IF required = <<>> THEN <<>>
    ELSE TermLabels(Head(required)) \o RequiredLabels(Tail(required))

\* required_labels[key] = values raises: the key is a list or a dict
ExprRaises(expr) ==
    /\ ExprLabel(expr) # <<>>
    /\ expr.v["key"].k \in {"list", "map"}

\* the loops over extraNodeAffinity.required raise a TypeError
AffinityRaises(required) ==
    /\ Truthy(required)
    /\ \/ ~Iterable(required)
       \/ \E i \in 1..Len(Items(required)) :
            /\ IsDict(Items(required)[i])
            /\ "matchExpressions" \in DOMAIN Items(required)[i].v
            /\ \/ ~Iterable(Items(required)[i].v["matchExpressions"])
               \/ \E j \in 1..Len(Items(Items(required)[i].v["matchExpressions"])) :
                    ExprRaises(Items(Items(required)[i].v["matchExpressions"])[j])

\* has a dict section `name` in dict content d
HasDict(d, name) == name \in DOMAIN d /\ IsDict(d[name])

\* variant: a sanitizer without the whitelist, that drops namespace only
SanWhitelistOpen(values) ==
    [key \in (DOMAIN values) \ {"namespace"} |-> values[key]]

\* _validate_helm_values: only whitelisted top-level keys, then no namespace
SanWhitelist(values) ==
    [key \in ((DOMAIN values) \cap AllowedHelmKeys) \ {"namespace"} |-> values[key]]

\* variant: an rbac check that empties the section
SanRbacEmptied(s) ==
    IF HasDict(s, "rbac") THEN Put(s, "rbac", MapN(<<>>)) ELSE s

\* _validate_helm_values: no clusterRoleBindings in rbac
SanRbac(s) ==
    IF HasDict(s, "rbac")
    THEN Put(s, "rbac", MapN(Del(s["rbac"].v, "clusterRoleBindings")))
    ELSE s

\* variant: a securityContext check that removes privileged only
SanSecurityContextPrivilegedOnly(su) ==
    IF HasDict(su, "securityContext")
    THEN Put(su, "securityContext", MapN(Del(su["securityContext"].v, "privileged")))
    ELSE su

\* _validate_helm_values: singleuser.securityContext without the dangerous keys
SanSecurityContext(su) ==
    IF HasDict(su, "securityContext")
    THEN Put(su, "securityContext",
             MapN([x \in (DOMAIN su["securityContext"].v)
                          \ {"privileged", "allowPrivilegeEscalation", "capabilities"}
                      |-> su["securityContext"].v[x]]))
    ELSE su

\* an empty map under `name` becomes an empty list
EmptyMapToList(storage, name) ==
    IF HasDict(storage, name) /\ DOMAIN storage[name].v = {}
    THEN Put(storage, name, ListN(<<>>))
    ELSE storage

\* a storage class that does not exist becomes "standard"
FixStorageClass(cl, d, name) ==
    IF /\ name \in DOMAIN d
       /\ Truthy(d[name])
       /\ ~CheckStorageClassExists(cl, d[name])
    THEN Put(d, name, StrN("standard"))
    ELSE d

\* the storage section: empty maps to lists, then the dynamic storage class
FixStorage(cl, storage) ==
    Only({IF HasDict(s1, "dynamic")
          THEN Put(s1, "dynamic", MapN(FixStorageClass(cl, s1["dynamic"].v, "storageClass")))
          ELSE s1
          : s1 \in {EmptyMapToList(EmptyMapToList(storage, "extraVolumes"),
                                   "extraVolumeMounts")}})

\* _validate_helm_values: singleuser.storage
SanStorage(cl, su) ==
    IF HasDict(su, "storage")
    THEN Put(su, "storage", MapN(FixStorage(cl, su["storage"].v)))
    ELSE su

\* the db.pvc.storageClassName check (in _validate_helm_values it sits under
\* the singleuser.storage branch)
SanDb(cl, s) ==
    IF HasDict(s, "db") /\ HasDict(s["db"].v, "pvc")
    THEN Put(s, "db", MapN(Put(s["db"].v, "pvc",
             MapN(FixStorageClass(cl, s["db"].v["pvc"].v, "storageClassName")))))
    ELSE s

\* extraNodeAffinity.required of a singleuser section
AffinityRequired(su) == DictGet(su["extraNodeAffinity"].v, "required", ListN(<<>>))

\* the node affinity check: drop an affinity no node satisfies
SanAffinity(cl, su) ==
    IF HasDict(su, "extraNodeAffinity")
    THEN Only({IF Truthy(AffinityRequired(su)) /\ labels # <<>>
                  /\ ~CheckNodeLabelsExist(cl, labels)
               THEN Put(su, "extraNodeAffinity", MapN(<<>>))
               ELSE su
               : labels \in {RequiredLabels(Items(AffinityRequired(su)))}})
    ELSE su

\* variant: an httpRoute check that flips `enabled`
DisableHttpRouteFlipping(d) ==
    IF HasDict(d, "httpRoute") /\ "enabled" \in DOMAIN d["httpRoute"].v
    THEN Put(d, "httpRoute",
             MapN(Put(d["httpRoute"].v, "enabled", BoolN(~Truthy(d["httpRoute"].v["enabled"])))))
    ELSE d

\* an httpRoute section with a truthy `enabled` gets enabled = False
DisableHttpRoute(d) ==
    IF HasDict(d, "httpRoute") /\ Truthy(DictGet(d["httpRoute"].v, "enabled", BoolN(FALSE)))
    THEN Put(d, "httpRoute", MapN(Put(d["httpRoute"].v, "enabled", BoolN(FALSE))))
    ELSE d

\* the singleuser section up to the node affinity loops
SanSingleuser(cl, s) ==
    IF HasDict(s, "singleuser")
    THEN Only({IF HasDict(su, "storage")
               THEN SanDb(cl, Put(s, "singleuser", MapN(su)))
               ELSE Put(s, "singleuser", MapN(su))
               : su \in {SanStorage(cl, SanSecurityContext(s["singleuser"].v))}})
    ELSE s

\* _validate_helm_values up to the node affinity loops
SanBeforeAffinity(cl, values) ==
    Only({SanSingleuser(cl, s) : s \in {SanRbac(SanWhitelist(values))}})

\* the node affinity loops of a tree raise
TreeAffinityRaises(s) ==
    /\ HasDict(s, "singleuser")
    /\ HasDict(s["singleuser"].v, "extraNodeAffinity")
    /\ AffinityRaises(AffinityRequired(s["singleuser"].v))

\* _validate_helm_values raises (the node affinity loops meet a number)
SanitizeRaises(cl, values) ==
    \E s \in {SanBeforeAffinity(cl, values)} : TreeAffinityRaises(s)

\* the node affinity check and the two httpRoute checks
SanTail(cl, s) ==
    Only({IF HasDict(s3, "hub")
          THEN Put(s3, "hub", MapN(DisableHttpRoute(s3["hub"].v)))
          ELSE s3
          : s3 \in {DisableHttpRoute(
                       IF HasDict(s, "singleuser")
                       THEN Put(s, "singleuser", MapN(SanAffinity(cl, s["singleuser"].v)))
                       ELSE s)}})

\* HubSpawner._validate_helm_values, when it returns
Sanitize(cl, values) ==
    Only({SanTail(cl, s) : s \in {SanBeforeAffinity(cl, values)}})

\* ------------------------------------------------------------------ bounds and inputs

\* handler calls in flight at once
MaxInflight == 2
\* handler calls one run makes
MaxCalls == 3
\* pods one listing of a namespace returns
MaxPods == 2
\* HubSpawner.start_timeout, a configuration value, in seconds
StartTimeout == 6
\* wait_interval of the readiness loop, in seconds
WaitInterval == 5

Char(c) == <<c>>
\* JupyterCluster.default_namespace_prefix: "jupyterhub-"
DefaultNamespacePrefix == <<"j", "u", "p", "y", "t", "e", "r", "h", "u", "b", "-">>

\* hub names the callers use: two valid ones
HubNames == {Char("a"), Char("b")}
Owner == "alice"

\* tenant input: {"foo": 1, "namespace": "kube-system", "hub": {}}
TreeRaw ==
    [x \in {"foo", "namespace", "hub"} |->
        IF x = "foo" THEN IntN(1)
        ELSE IF x = "namespace" THEN StrN("kube-system")
        ELSE MapN(<<>>)]
\* input the sanitizer cannot walk: {"singleuser": {"extraNodeAffinity": {"required": 5}}}
TreeBad ==
    [x \in {"singleuser"} |->
        MapN([y \in {"extraNodeAffinity"} |-> MapN([z \in {"required"} |-> IntN(5)])])]
\* input that _deploy_helm_release changes in place:
\* {"db": {"pvc": {"storageClassName": "gold"}}}
TreeGold ==
    [x \in {"db"} |-> MapN([y \in {"pvc"} |-> MapN([z \in {"storageClassName"} |-> StrN("gold")])])]

\* the cluster the lifecycle runs against, as the sanitizer sees it
LiveCluster == ClusterView({"standard"}, FALSE, {}, FALSE)

\* the clusters the sanitizer is tried on: the live one, one with a second
\* storage class and a labelled node, and one whose listing calls fail
Clusters ==
    {LiveCluster,
     ClusterView({"standard", "fast"}, FALSE, {[x \in {"gpu"} |-> "yes"]}, FALSE),
     ClusterView({}, TRUE, {}, TRUE)}

\* the dict {key: val}
Dict1(key, val) == Put(EmptyDict, key, val)

\* the configuration trees the sanitizer is tried on: one section, or none,
\* for each top-level key a tenant can send
Trees ==
    LET \* sections a tenant can send, by top-level key; EmptyDict is the key left out
        FooOptions == {EmptyDict, Dict1("foo", IntN(1))}
        NamespaceOptions == {EmptyDict, Dict1("namespace", StrN("kube-system"))}
        HttpRouteOptions == {EmptyDict, Dict1("httpRoute", MapN(Dict1("enabled", BoolN(TRUE))))}
        HubOptions ==
            {EmptyDict,
             Dict1("hub", MapN(<<>>)),
             Dict1("hub", MapN(Dict1("namespace", StrN("kube-system")))),
             Dict1("hub", MapN(Dict1("httpRoute", MapN(Dict1("enabled", IntN(1))))))}
        ProxyOptions ==
            {EmptyDict, Dict1("proxy", MapN(Dict1("httpRoute", MapN(Dict1("enabled", BoolN(TRUE))))))}
        RbacOptions ==
            {EmptyDict,
             Dict1("rbac", StrN("cluster-admin")),
             Dict1("rbac", MapN(Dict1("enabled", BoolN(TRUE)))),
             Dict1("rbac", MapN(Put(Dict1("enabled", BoolN(TRUE)), "clusterRoleBindings",
                                    ListN(<<MapN(Dict1("name", StrN("hack")))>>))))}
        \* a node affinity term: key gpu In [yes]
        GpuTerm ==
            MapN(Dict1("matchExpressions", ListN(<<
                MapN(Put(Put(Dict1("key", StrN("gpu")), "operator", StrN("In")),
                         "values", ListN(<<StrN("yes")>>)))>>)))
        SingleuserOptions ==
            {EmptyDict,
             Dict1("singleuser", MapN(Dict1("storage",
                 MapN(Put(Dict1("extraVolumes", MapN(<<>>)), "dynamic",
                          MapN(Dict1("storageClass", StrN("fast")))))))),
             Dict1("singleuser", MapN(Dict1("extraNodeAffinity",
                 MapN(Dict1("required", ListN(<<GpuTerm>>)))))),
             Dict1("singleuser", MapN(Dict1("securityContext",
                 MapN(Put(Put(Put(Dict1("privileged", BoolN(TRUE)), "runAsUser", IntN(1000)),
                              "allowPrivilegeEscalation", BoolN(TRUE)),
                          "capabilities", MapN(Dict1("add", ListN(<<StrN("SYS_ADMIN")>>)))))))),
             TreeBad}
    IN
    {Merge(Merge(Merge(a, b), Merge(c, d)), Merge(Merge(e, f), g)) :
        a \in FooOptions, b \in NamespaceOptions, c \in HubOptions,
        d \in RbacOptions, e \in SingleuserOptions, f \in HttpRouteOptions,
        g \in ProxyOptions}

\* ------------------------------------------------------------------ state

VARIABLES
    hubs,    \* JupyterCluster.hubs: hub name -> slot of its HubInstance
    insts,   \* the HubInstance objects: hub name -> slot -> object
    orm,     \* the session's Hub objects, as reading them gives: hub name -> row
    session, \* the session's bookkeeping for each Hub object, and its transaction
    db,      \* the committed rows of table hubs: hub name -> row
    ops,     \* the handler coroutines suspended at an await
    result,  \* what the call that just ended gave its caller
    helm,    \* the helm command the last step launched
    calls,   \* handler calls begun so far
    users,   \* the committed rows of table users: user name -> row
    prefix,  \* JupyterCluster.default_namespace_prefix, as configured
    files,   \* how many values files _deploy_helm_release has left on disk
    allow_namespace_creation,  \* HubSpawner._get_allow_namespace_creation()
    namespaces,  \* the cluster's namespaces: name -> metadata.labels
    hub_events,  \* the committed rows of table hub_events whose hub_id no row
                 \* of table hubs has: hub_id -> rows (the others are the
                 \* `events` of their hub's row)
    id_sequence  \* where the store numbers the rows of table hubs from a
                 \* sequence, the last id it gave; -1 where it has none and a
                 \* new row gets one more than the largest id in the table
                 \* (SQLite, the store of the default db_url)

vars == <<hubs, insts, orm, session, db, ops, result, helm, calls, users, prefix, files,
          allow_namespace_creation, namespaces, hub_events, id_sequence>>

Slots == 0..MaxInflight
OpIds == 1..MaxInflight

NoInst == [status |-> "none"]
Idle == [kind |-> "idle"]
NoResult == [kind |-> "none"]
NoHelm == [cmd |-> "none"]

\* create_hub: namespace = f"{self.default_namespace_prefix}{name}"
Namespace(name) == prefix \o name

\* create_hub: helm_release_name = f"jupyterhub-{name}"
ReleaseName(name) == <<"j", "u", "p", "y", "t", "e", "r", "h", "u", "b", "-">> \o name

\* str.isalnum() on one character
IsAlnum(c) == c \in {"a", "b", "c", "e", "h", "j", "p", "r", "t", "u", "y", "z",
                     "A", "Z", "0", "1", "9"}

\* JupyterCluster._is_valid_namespace_name
IsValidNamespaceName(name) ==
    /\ Len(name) <= 63
    /\ IsAlnum(name[1]) /\ IsAlnum(name[Len(name)])
    /\ \A i \in 1..Len(name) : IsAlnum(name[i]) \/ name[i] = "-"

\* the program state a handler works on, as one value
World ==
    [hubs |-> hubs, insts |-> insts, orm |-> orm, session |-> session, db |-> db,
     hub_events |-> hub_events, id_sequence |-> id_sequence]

\* orm.Hub(...) as create_hub builds it: no id yet (0), the INSERT gives it
NewRow(name, owner, values) ==
    [id |-> 0, name |-> name, namespace |-> Namespace(name), owner |-> owner,
     helm_release_name |-> ReleaseName(name), helm_chart |-> <<"jupyterhub/jupyterhub">>,
     values |-> values, status |-> "pending", url |-> <<>>, events |-> <<>>]

\* HubInstance.__init__ / _load_from_orm: the table has no error_message
\* column, so getattr(self.orm_hub, "error_message", None) is None.  orm_hub
\* is the Hub object, known by its id
LoadFromOrm(row) ==
    [orm_hub |-> row.id, name |-> row.name, namespace |-> row.namespace, owner |-> row.owner,
     helm_release_name |-> row.helm_release_name, helm_chart |-> row.helm_chart,
     values |-> row.values, status |-> row.status, url |-> row.url,
     error_message |-> <<>>, spawner |-> [built |-> FALSE, aliased |-> FALSE, dv |-> EmptyDict], live |-> TRUE]

\* The session (sessionmaker defaults: autoflush, expire_on_commit).  For
\* each Hub object it keeps: ref, the slot of the hub object whose values dict
\* is the one the attribute `values` holds (-1: no hub object has it); base,
\* what the session compares `values` with when it flushes: the attributes
\* are expired and there is nothing to flush (k "expired"), they were expired
\* when they were set (k "novalue": compared with nothing, they are written),
\* or the dict the session loaded or last flushed (k "obj"), which is the
\* values dict of hub object `slot` or, if no hub object has it, holds
\* `values`; loaded, whether the collection `events` of the object is loaded
\* (reading `id` or `events` of an object whose attributes are expired or
\* whose events are not loaded is a query, and the session flushes before a
\* query); tx, the row as the open transaction has it.
Base(k, slot, values) ==
    [k |-> k, slot |-> slot, values |-> IF slot >= 0 THEN EmptyDict ELSE values]
\* the bookkeeping of a Hub object just loaded, from which the hub object in
\* `slot` was built (_load_from_orm: self.values = self.orm_hub.values), or
\* (slot -1) of one whose attributes are expired
SessionRow(slot, row) ==
    [ref |-> slot,
     base |-> IF slot >= 0 THEN Base("obj", slot, EmptyDict)
              ELSE Base("expired", 0 - 1, EmptyDict),
     loaded |-> FALSE,
     tx |-> [status |-> row.status, url |-> row.url, values |-> row.values,
             events |-> row.events]]

\* HubInstance._save_to_orm (hasattr(self.orm_hub, "error_message") is False);
\* an object whose row was deleted keeps what it is given, and no row has it
SaveToOrm(w, name, slot) ==
    IF w.insts[name][slot].live
    THEN [w EXCEPT !.orm[name].status = w.insts[name][slot].status,
                   !.orm[name].url = w.insts[name][slot].url,
                   !.orm[name].values = w.insts[name][slot].values,
                   !.session[name].ref = slot,
                   !.session[name].base = IF @.k = "expired"
                                           THEN Base("novalue", 0 - 1, EmptyDict) ELSE @]
    ELSE w

\* a dict the session holds, as it is now: the values of the hub object in
\* `slot` that shares it (changes made in place are in it), or `values`
HeldValues(w, name, slot, values) ==
    IF slot >= 0 THEN w.insts[name][slot].values ELSE values

\* what reading the Hub objects gives, after changes made in place
Sync(w) ==
    [w EXCEPT !.orm = [n \in DOMAIN w.orm |->
                          [w.orm[n] EXCEPT
                              !.values = HeldValues(w, n, w.session[n].ref, @)]]]

\* session.flush(): the UPDATE of a Hub object has the columns whose value
\* differs (==) from the one the session compares with; a dict changed in
\* place is the dict it was loaded as, and is not written
Flush(w) ==
    [w EXCEPT !.session =
        [n \in DOMAIN w.orm |->
            LET r == w.session[n]
                values == HeldValues(w, n, r.ref, w.orm[n].values)
            IN  IF r.base.k = "expired"
                THEN [r EXCEPT !.tx.events = w.orm[n].events]
                ELSE [ref |-> r.ref,
                      base |-> Base("obj", r.ref, values),
                      loaded |-> r.loaded,
                      tx |-> [status |-> w.orm[n].status, url |-> w.orm[n].url,
                              values |-> IF \/ r.base.k = "novalue"
                                            \/ HeldValues(w, n, r.base.slot, r.base.values)
                                                  # values
                                         THEN values ELSE r.tx.values,
                              events |-> w.orm[n].events]]]]

\* variant: _log_error_event whose failed append leaves nothing behind
LogErrorEventOrNothing(w, name, slot, operation, error_message) ==
    IF w.insts[name][slot].live
    THEN LET f == IF w.session[name].loaded THEN w ELSE Flush(w)
         IN  [f EXCEPT !.insts[name][slot].error_message =
                           <<"[", operation, "]">> \o error_message,
                       !.session[name].loaded = TRUE,
                       !.orm[name].events =
                           Append(@, [event_type |-> "error",
                                      message |-> <<operation, ":">> \o error_message])]
    ELSE w

\* HubInstance._log_error_event: error_message; then self.orm_hub.id and
\* self.orm_hub.events are read, which loads them if they are not loaded,
\* after a flush of what the session holds (the status, URL and values that
\* _save_to_orm has just set); then the event is appended, to be flushed
\* later.  On an object whose row is gone the read raises, which is caught
LogErrorEvent(w, name, slot, operation, error_message) ==
    IF w.insts[name][slot].live
    THEN LET f == IF w.session[name].loaded THEN w ELSE Flush(w)
         IN  [f EXCEPT !.insts[name][slot].error_message =
                           <<"[", operation, "]">> \o error_message,
                       !.session[name].loaded = TRUE,
                       !.orm[name].events =
                           Append(@, [event_type |-> "error",
                                      message |-> <<operation, ":">> \o error_message])]
    ELSE [w EXCEPT !.insts[name][slot].error_message = <<"[", operation, "]">> \o error_message]

\* the failure text hub.start / hub.stop build: str(e), then the traceback
FullError(error_msg) == error_msg \o <<"Traceback:">> \o error_msg

\* the transaction ends: what it holds becomes the store (commit) or is
\* dropped (rollback), and every object of the session is expired
EndTransaction(w, kept) ==
    LET rows == [n \in DOMAIN w.orm |->
                    IF kept THEN [w.orm[n] EXCEPT !.status = w.session[n].tx.status,
                                                  !.url = w.session[n].tx.url,
                                                  !.values = w.session[n].tx.values,
                                                  !.events = w.session[n].tx.events]
                    ELSE w.db[n]]
    IN  [w EXCEPT !.orm = rows,
                  !.db = rows,
                  !.session = [n \in DOMAIN rows |-> SessionRow(0 - 1, rows[n])]]

\* session.commit(): flush, then the transaction becomes the store
Commit(w) == EndTransaction(Flush(w), TRUE)

\* slots of `name` that some suspended operation in `o` holds
HeldSlots(o, name) == {o[k].slot : k \in {j \in OpIds : o[j].kind # "idle" /\ o[j].name = name}}

\* the slot a new HubInstance of `name` gets
FreeSlot(o, name) == CHOOSE s \in Slots \ HeldSlots(o, name) :
                        \A t \in Slots \ HeldSlots(o, name) : s <= t

\* JupyterCluster._load_hubs: the query flushes and loads the rows whose
\* objects are expired (its callers have just committed: all are); a new
\* HubInstance for every row
LoadHubs(w, o) ==
    Only({[f EXCEPT
             !.insts = [n \in DOMAIN f.insts |->
                          IF n \in DOMAIN f.orm
                          THEN [f.insts[n] EXCEPT ![FreeSlot(o, n)] = LoadFromOrm(f.orm[n])]
                          ELSE f.insts[n]],
             !.hubs = [n \in (DOMAIN f.hubs) \cup (DOMAIN f.orm) |->
                          IF n \in DOMAIN f.orm THEN FreeSlot(o, n) ELSE f.hubs[n]],
             !.session = [n \in DOMAIN f.orm |->
                            [f.session[n] EXCEPT
                                !.ref = FreeSlot(o, n),
                                !.base = IF @.k = "expired"
                                         THEN Base("obj", FreeSlot(o, n), EmptyDict)
                                         ELSE @]]]
          : f \in {Sync(Flush(w))}})

\* objects nothing refers to any more are dropped; a hub object that only
\* the cache refers to is the one in slot 0.  A dict the session holds stays
\* as its hub object left it
Collect(w, o) ==
    [w EXCEPT
       !.insts = [n \in DOMAIN w.insts |->
                    IF HeldSlots(o, n) = {}
                    THEN [s \in Slots |-> IF n \in DOMAIN w.hubs /\ s = 0
                                          THEN w.insts[n][w.hubs[n]] ELSE NoInst]
                    ELSE [s \in Slots |-> IF \/ (n \in DOMAIN w.hubs /\ w.hubs[n] = s)
                                             \/ s \in HeldSlots(o, n)
                                          THEN w.insts[n][s] ELSE NoInst]],
       !.hubs = [n \in DOMAIN w.hubs |-> IF HeldSlots(o, n) = {} THEN 0 ELSE w.hubs[n]],
       !.session =
          [n \in DOMAIN w.session |->
              LET kept(s) == IF HeldSlots(o, n) = {}
                             THEN n \in DOMAIN w.hubs /\ w.hubs[n] = s
                             ELSE \/ (n \in DOMAIN w.hubs /\ w.hubs[n] = s)
                                  \/ s \in HeldSlots(o, n)
                  to(s) == IF HeldSlots(o, n) = {} THEN 0 ELSE s
              IN  [w.session[n] EXCEPT
                      !.ref = IF @ >= 0 /\ kept(@) THEN to(@) ELSE 0 - 1,
                      !.base = IF @.slot < 0 THEN @
                               ELSE IF kept(@.slot) THEN Base(@.k, to(@.slot), EmptyDict)
                               ELSE Base(@.k, 0 - 1, w.insts[n][@.slot].values)]]]

\* the suspended operations, in the first places (which place an operation
\* has means nothing)
Compact(o) ==
    [n \in OpIds |->
        IF \E k \in OpIds : /\ o[k].kind # "idle"
                            /\ Cardinality({j \in 1..k : o[j].kind # "idle"}) = n
        THEN o[CHOOSE k \in OpIds : /\ o[k].kind # "idle"
                                    /\ Cardinality({j \in 1..k : o[j].kind # "idle"}) = n]
        ELSE Idle]

\* the step's outcome becomes the next state
Settles(w, o, r, h, u) ==
    \E wb \in {w} : \E ob \in {o} : \E c \in {Collect(Sync(wb), ob)} :
       /\ hubs' = c.hubs
       /\ insts' = c.insts
       /\ orm' = c.orm
       /\ session' = c.session
       /\ db' = c.db
       /\ ops' = Compact(ob)
       /\ result' = r
       /\ helm' = h
       /\ users' = u
       /\ hub_events' = c.hub_events
       /\ id_sequence' = c.id_sequence
       /\ UNCHANGED <<prefix, allow_namespace_creation>>

\* the same, by a handler that leaves the users table alone
Becomes(w, o, r, h) == Settles(w, o, r, h, users)

\* no helm run ended in this call
NoTool == [rc |-> 0, stderr |-> <<>>, stdout |-> <<>>]

\* what a call gave its caller (outcome, and for a failure the step that
\* failed and str(e)), with what an observer of the call sees: the answer of
\* the helm run that ended in it, the hub object it ran on (i), the status
\* that object had when the call's last step began (was), and the events the
\* step appended to the hub's row (appended)
Outcome(kind, via, name, outcome, step, error, tool, i, was, appended) ==
    [kind |-> kind, via |-> via, name |-> name, outcome |-> outcome, step |-> step,
     error |-> error, tool |-> tool, status |-> i.status, url |-> i.url,
     error_message |-> i.error_message, values |-> i.values, live |-> i.live,
     was |-> was, appended |-> appended]

Init ==
    /\ prefix = DefaultNamespacePrefix
    /\ users = EmptyDict
    /\ files = 0
    /\ allow_namespace_creation = TRUE
    /\ namespaces = EmptyDict
    /\ hubs = EmptyDict
    /\ insts = [n \in HubNames |-> [s \in Slots |-> NoInst]]
    /\ orm = EmptyDict
    /\ session = EmptyDict
    /\ db = EmptyDict
    /\ ops = [k \in OpIds |-> Idle]
    /\ result = NoResult
    /\ helm = NoHelm
    /\ calls = 0
    /\ hub_events = EmptyDict
    /\ id_sequence \in {0 - 1, 0}

\* a handler call begins / a suspended one goes on
Call == calls < MaxCalls /\ calls' = calls + 1
Goes == calls' = calls

\* what create_hub gave its caller
Created(name, owner, outcome, error) ==
    [kind |-> "create", name |-> name, owner |-> owner, outcome |-> outcome,
     error |-> error]

\* variant: create_hub without its namespace check
NamespaceInUseNever(namespace) == FALSE

\* create_hub: namespace in [h.namespace for h in self.hubs.values()]
NamespaceInUse(namespace) ==
    \E h \in DOMAIN hubs : insts[h][hubs[h]].namespace = namespace

\* create_hub: user_hubs = [h for h in self.hubs.values() if h.owner == owner]
UserHubs(owner) == {h \in DOMAIN hubs : insts[h][hubs[h]].owner = owner}

\* create_hub: user.allowed_namespace_prefixes is set and none of them begins
\* the namespace (str.startswith)
PrefixRefused(user, namespace) ==
    /\ user.allowed_namespace_prefixes # <<>>
    /\ ~\E j \in 1..Len(user.allowed_namespace_prefixes) :
           /\ Len(user.allowed_namespace_prefixes[j]) <= Len(namespace)
           /\ SubSeq(namespace, 1, Len(user.allowed_namespace_prefixes[j])) =
                 user.allowed_namespace_prefixes[j]

\* create_hub from self.db.add on: the row is added and committed (with
\* whatever else the session holds), and the HubInstance built from the row
\* as the store gives it back.  The INSERT gives the row its id: the next of
\* the sequence, or one more than the largest id in the table, which a deleted
\* row may have had.  The events of a Hub object are the rows of hub_events
\* with its id, so a new row has those a deleted row of that id has left
Stored(w, name, slot, row) ==
    LET id == IF w.id_sequence >= 0 THEN w.id_sequence + 1
              ELSE IF DOMAIN w.orm = {} THEN 1
              ELSE 1 + CHOOSE i \in {w.orm[n].id : n \in DOMAIN w.orm} :
                           \A n \in DOMAIN w.orm : w.orm[n].id <= i
        stored == [row EXCEPT !.id = id,
                              !.events = IF id \in DOMAIN w.hub_events
                                         THEN w.hub_events[id] ELSE <<>>]
    IN  Only({[c EXCEPT !.hubs = Put(@, name, slot),
                        !.insts[name][slot] = LoadFromOrm(stored),
                        !.session[name] = SessionRow(slot, stored)]
              : c \in {Commit([w EXCEPT
                                 !.orm = Put(@, name, stored),
                                 !.session = Put(@, name, SessionRow(0 - 1, stored)),
                                 !.hub_events = Del(@, id),
                                 !.id_sequence = IF @ >= 0 THEN id ELSE @])}})

\* variant: a create_hub that stores the hub before it looks at the owner's
\* namespace prefixes
CreateHubStoringFirst(name, owner, values) ==
    /\ files' = files
    /\ namespaces' = namespaces
    /\ \E namespace \in {Namespace(name)} :
          \E row \in {NewRow(name, owner, values)} : \E slot \in {FreeSlot(ops, name)} :
             /\ namespace # <<>>
             /\ IsValidNamespaceName(namespace)
             /\ ~NamespaceInUse(namespace)
             /\ Becomes(Stored(World, name, slot, row),
                        ops,
                        IF owner \in DOMAIN users /\ PrefixRefused(users[owner], namespace)
                        THEN Created(name, owner, "ValueError",
                                     <<"User", owner, "is not allowed to deploy to namespace">>
                                         \o namespace)
                        ELSE Created(name, owner, "ok", <<>>),
                        NoHelm)

\* JupyterCluster.create_hub.  A name whose row is in the table while the
\* index has lost it (see Remove) is not asked for again: the runs stop short
\* of the INSERT that the unique name refuses
CreateHub(name, owner, values) ==
    /\ files' = files
    /\ namespaces' = namespaces
    /\ \E namespace \in {Namespace(name)} :
          IF namespace = <<>>
          THEN Becomes(World, ops,
                       Created(name, owner, "IndexError", <<"string index out of range">>),
                       NoHelm)
          ELSE IF ~IsValidNamespaceName(namespace)
          THEN Becomes(World, ops,
                       Created(name, owner, "ValueError",
                               <<"Invalid namespace name:">> \o namespace),
                       NoHelm)
          ELSE IF NamespaceInUse(namespace)
          THEN Becomes(World, ops,
                       Created(name, owner, "ValueError",
                               <<"Namespace">> \o namespace \o <<"already in use">>),
                       NoHelm)
          ELSE IF /\ owner \in DOMAIN users
                  /\ Truthy(users[owner].max_hubs)
                  /\ Cardinality(UserHubs(owner)) >= users[owner].max_hubs.v
          THEN Becomes(Flush(World), ops,
                       Created(name, owner, "ValueError",
                               <<"User", owner, "has reached maximum hub limit of">>
                                   \o Str(users[owner].max_hubs.v)),
                       NoHelm)
          ELSE IF owner \in DOMAIN users /\ PrefixRefused(users[owner], namespace)
          THEN Becomes(Flush(World), ops,
                       Created(name, owner, "ValueError",
                               <<"User", owner, "is not allowed to deploy to namespace">>
                                   \o namespace),
                       NoHelm)
          ELSE \E row \in {NewRow(name, owner, values)} : \E slot \in {FreeSlot(ops, name)} :
                  /\ (name \in DOMAIN orm => name \in DOMAIN hubs)
                  /\ Becomes(Stored(World, name, slot, row),
                             ops, Created(name, owner, "ok", <<>>), NoHelm)

\* a new process: JupyterCluster.__init__ loads the committed rows
Restart ==
    /\ hubs' = [n \in DOMAIN db |-> 0]
    /\ insts' = [n \in DOMAIN insts |-> [s \in Slots |->
                    IF n \in DOMAIN db /\ s = 0 THEN LoadFromOrm(db[n]) ELSE NoInst]]
    /\ orm' = db
    /\ session' = [n \in DOMAIN db |-> SessionRow(0, db[n])]
    /\ db' = db
    /\ ops' = [k \in OpIds |-> Idle]
    /\ result' = NoResult
    /\ helm' = NoHelm
    /\ UNCHANGED <<users, prefix, files, allow_namespace_creation, namespaces,
                   hub_events, id_sequence>>

\* ------------------------------------------------------------------ cluster and tool answers

\* str(e) of the failures the environment produces
ClientInitText == <<"Service", "host/port", "is", "not", "set.">>
ApiErrorText == <<"(403)", "Reason:", "Forbidden">>
NoHelmText == <<"[Errno 2]", "No", "such", "file", "or", "directory:", "'helm'">>
MissingNamespaceText(namespace) ==
    <<"Namespace">> \o namespace
        \o <<"does", "not", "exist", "and", "namespace", "creation", "is", "disabled.",
              "Please", "create", "the", "namespace", "manually", "or", "enable",
              "namespace", "creation", "in", "JupyterCluster", "configuration.">>

\* what `helm upgrade --install` can end with: exit code, stderr, stdout
UpgradeAnswers ==
    {[rc |-> 0, stderr |-> <<>>, stdout |-> <<"deployed">>],
     [rc |-> 1, stderr |-> <<"chart", "not", "found">>, stdout |-> <<>>],
     [rc |-> 1, stderr |-> <<>>, stdout |-> <<"UPGRADE", "FAILED">>]}

\* what `helm uninstall` can end with
UninstallAnswers ==
    {[rc |-> 0, stderr |-> <<>>, stdout |-> <<"uninstalled">>],
     [rc |-> 1, stderr |-> <<"Error:", "release:", "not", "found">>, stdout |-> <<>>],
     [rc |-> 1, stderr |-> <<>>, stdout |-> <<"Release", "Not", "Found">>],
     [rc |-> 1, stderr |-> <<"Error:", "cluster", "unreachable">>, stdout |-> <<>>],
     [rc |-> 1, stdout |-> <<>>,
      stderr |-> <<"Error:", "Kubernetes", "cluster", "unreachable:",
                   "context", "was", "not", "found">>]}

\* what one look of the readiness loop can find: no proxy/hub service (or a
\* service listing that fails, which the loop takes the same way), a service
\* alone, a service and an ingress rule
ReadyAnswers == {"none", "service", "ingress"}

\* the labels _ensure_namespace puts on a namespace
OwnershipLabels(hub_name, owner) ==
    [x \in {"jupytercluster.io/managed", "jupytercluster.io/hub", "jupytercluster.io/owner"} |->
        IF x = "jupytercluster.io/managed" THEN StrN(<<"true">>)
        ELSE IF x = "jupytercluster.io/hub" THEN StrN(hub_name)
        ELSE StrN(<<owner>>)]

\* variant: an _ensure_namespace that creates and labels whatever the policy
EnsureNamespaceCreating(nss, namespace, hub_name, owner, allow, fails) ==
    IF namespace \in DOMAIN nss /\ IsDict(nss[namespace])
    THEN [ok |-> TRUE, error |-> <<>>,
          namespaces |-> Put(nss, namespace,
                             MapN(Merge(nss[namespace].v, OwnershipLabels(hub_name, owner))))]
    ELSE [ok |-> TRUE, error |-> <<>>,
          namespaces |-> Put(nss, namespace, MapN(OwnershipLabels(hub_name, owner)))]

\* HubSpawner._ensure_namespace on the namespaces nss: whether it returned,
\* str(e) if it raised, and the namespaces it leaves.  Under the policy it only
\* reads; else it patches the labels of a namespace it found (labels.update
\* on the object it read, then patch_namespace) and creates one it did not
EnsureNamespace(nss, namespace, hub_name, owner, allow, fails) ==
    IF fails = "read"
    THEN [ok |-> FALSE, error |-> ApiErrorText, namespaces |-> nss]
    ELSE IF ~allow
    THEN IF namespace \in DOMAIN nss
         THEN [ok |-> TRUE, error |-> <<>>, namespaces |-> nss]
         ELSE [ok |-> FALSE, error |-> MissingNamespaceText(namespace), namespaces |-> nss]
    ELSE IF namespace \in DOMAIN nss
    THEN IF ~IsDict(nss[namespace])
         THEN [ok |-> FALSE, error |-> <<"'NoneType'", "object", "has", "no", "attribute", "'update'">>, namespaces |-> nss]
         ELSE IF fails = "write"
         THEN [ok |-> FALSE, error |-> ApiErrorText, namespaces |-> nss]
         ELSE [ok |-> TRUE, error |-> <<>>,
               namespaces |-> Put(nss, namespace,
                                  MapN(Merge(nss[namespace].v,
                                             OwnershipLabels(hub_name, owner))))]
    ELSE IF fails = "write"
    THEN [ok |-> FALSE, error |-> ApiErrorText, namespaces |-> nss]
    ELSE [ok |-> TRUE, error |-> <<>>,
          namespaces |-> Put(nss, namespace, MapN(OwnershipLabels(hub_name, owner)))]

\* the error text of a helm run that exited non-zero:
\* stderr.decode() if stderr else stdout.decode()
ToolOutput(answer) == IF answer.stderr # <<>> THEN answer.stderr ELSE answer.stdout

\* _wait_for_hub_ready: the URL built from what was found
ServiceUrl(namespace) ==
    <<"http://", "proxy-public", ".">> \o namespace \o <<".svc.cluster.local">>
IngressUrl == <<"https://", "hub.example.org">>
PlaceholderUrl(hub_name) == <<"https://">> \o hub_name \o <<".example.com">>

\* ------------------------------------------------------------------ hub objects and callers

\* nested values are shared, not copied: after sanitize(x) returned s, a dict d
\* that shares the sections `shared` with x sees them as s has them
InPlace(d, s, shared) ==
    [x \in DOMAIN d |-> IF x \in shared \cap DOMAIN s THEN s[x] ELSE d[x]]

\* the payloads of the suspended operations on the same hub object share
\* sections with its values (field shV) or its spawner's defaults (shDv)
TouchOps(o, name, slot, field, s) ==
    [k \in OpIds |->
        IF o[k].kind # "idle" /\ o[k].name = name /\ o[k].slot = slot
        THEN [o[k] EXCEPT !.payload = InPlace(@, s, o[k][field])]
        ELSE o[k]]

\* HubSpawner.start / _deploy_helm_release: the chart's required sections
RequiredFields == {"hub", "proxy", "singleuser", "ingress"}
EnsureRequiredFields(m) ==
    [x \in (DOMAIN m) \cup RequiredFields |->
        IF x \in RequiredFields /\ (x \notin DOMAIN m \/ ~IsDict(m[x]))
        THEN MapN(<<>>) ELSE m[x]]

\* HubInstance.get_spawner: the spawner is built once, with the values object
\* of that moment as its default_values
GetSpawner(i) ==
    IF i.spawner.built THEN i
    ELSE [i EXCEPT !.spawner = [built |-> TRUE, aliased |-> TRUE, dv |-> EmptyDict]]

\* spawner.default_values
DefaultValues(i) == IF i.spawner.aliased THEN i.values ELSE i.spawner.dv

\* self.values = new: the spawner keeps the old object
AssignValues(i, new) ==
    [i EXCEPT !.values = new,
              !.spawner = IF @.aliased
                          THEN [built |-> TRUE, aliased |-> FALSE, dv |-> i.values]
                          ELSE @]

\* the suspended operations on a hub object whose values were re-assigned
\* now share those sections with the spawner's defaults, if at all
Reassigned(o, name, slot, wasAliased) ==
    [k \in OpIds |->
        IF o[k].kind # "idle" /\ o[k].name = name /\ o[k].slot = slot
        THEN [o[k] EXCEPT !.shV = {},
                          !.shDv = IF wasAliased THEN @ \cup o[k].shV ELSE @]
        ELSE o[k]]

\* the except branch of HubInstance.start / stop
ErrorPath(w, name, slot, operation, error_msg) ==
    Only({LogErrorEvent(w1, name, slot, operation, FullError(error_msg))
          : w1 \in {SaveToOrm([w EXCEPT !.insts[name][slot].status = "error"], name, slot)}})

\* an operation ends.  via "web": HubDetailHandler.post commits, and after a
\* failure reloads the hubs.  via "api": HubActionAPIHandler.post and
\* HubAPIHandler.delete do neither.  via "direct": a caller of
\* hub.start(values) that passes overrides, and does neither.
Ends(w, o, kind, via, name, slot, outcome, step, error, tool) ==
    \E wb \in {w} : \E ob \in {o} :
    \E wc \in {IF via = "web" THEN Commit(wb) ELSE wb} :
    \E wl \in {IF via = "web" /\ outcome = "raised" THEN LoadHubs(wc, ob) ELSE wc} :
       Becomes(wl, ob,
               Outcome(kind, via, name, outcome, step, error, tool, wb.insts[name][slot],
                       insts[name][slot].status,
                       IF wb.insts[name][slot].live
                       THEN SubSeq(wb.orm[name].events, Len(orm[name].events) + 1,
                                   Len(wb.orm[name].events))
                       ELSE <<>>),
               NoHelm)

\* a suspended operation: which call, for whom, on which hub object, where it
\* waits, the payload it carries and the sections the payload shares
Op(kind, via, name, slot, pc, payload, shV, shDv, elapsed) ==
    [kind |-> kind, via |-> via, name |-> name, slot |-> slot, pc |-> pc,
     payload |-> payload, shV |-> shV, shDv |-> shDv, elapsed |-> elapsed,
     tool |-> NoTool]

FreeOps == {k \in OpIds : ops[k].kind = "idle"}
\* a call that begins has the first free place to suspend in, if there is one
Takes(k) == IF FreeOps = {} THEN k = 1 ELSE k \in FreeOps /\ \A j \in FreeOps : k <= j
Suspend(o, k, op) == [o EXCEPT ![k] = op]
Resume(k) == [ops EXCEPT ![k] = Idle]

\* variant: a helm command line whose namespace the stored values can set
HelmCmdFromValues(cmd, i, values) ==
    [cmd |-> cmd, hub |-> i.name, release |-> i.helm_release_name, chart |-> i.helm_chart,
     namespace |-> IF "namespace" \in DOMAIN i.values /\ i.values["namespace"].k = "str"
                   THEN <<i.values["namespace"].v>> ELSE i.namespace,
     values |-> values]

\* a helm command line
HelmCmd(cmd, i, values) ==
    [cmd |-> cmd, hub |-> i.name, release |-> i.helm_release_name, chart |-> i.helm_chart,
     namespace |-> i.namespace, values |-> values]

\* hub.values is about to be given another dict: where the session holds the
\* old one, it holds it without the hub object
Released(w, name, slot) ==
    IF w.insts[name][slot].live
    THEN [w EXCEPT !.orm[name].values = HeldValues(w, name, w.session[name].ref, @),
                   !.session[name].ref = IF @ = slot THEN 0 - 1 ELSE @,
                   !.session[name].base =
                       IF @.slot = slot THEN Base(@.k, 0 - 1, w.insts[name][slot].values)
                       ELSE @]
    ELSE w

\* ------------------------------------------------------------------ HubInstance.start

\* HubSpawner.start from the merge to the payload handed to
\* _deploy_helm_release: defaults, then the sanitized values (if any), the
\* required sections, and no namespace
StartPayload(default_values, values, sanitized_values) ==
    Del(EnsureRequiredFields(IF values # EmptyDict
                             THEN Merge(default_values, sanitized_values)
                             ELSE default_values),
        "namespace")

\* spawner.start after _ensure_namespace: the payload, and the first helm
\* command (helm repo add) of _deploy_helm_release.  K1: the sections the
\* merged values share with the hub's values; S1: what HubInstance.start
\* sanitized; S2: what HubSpawner.start made of S1.
StartDeploy(k, name, slot, via, w1, o1, K1, S1, S2) ==
    \E i3 \in {[w1.insts[name][slot] EXCEPT !.values = InPlace(@, S2, K1)]} :
    \E w2 \in {[w1 EXCEPT !.insts[name][slot] = i3]} :
    \E o2 \in {TouchOps(o1, name, slot, "shV", Restrict(S2, K1))} :
    \E DV \in {DefaultValues(i3)} :
    \E kept \in {{x \in DOMAIN Merge(DV, S2) :
                      x \notin RequiredFields \/ IsDict(Merge(DV, S2)[x])} \ {"namespace"}} :
    \E fromDV \in {((DOMAIN DV) \ (DOMAIN S2)) \cap kept} :
       \/ Ends(ErrorPath(w2, name, slot, "start", NoHelmText), o2,
               "start", via, name, slot, "raised", "repo", NoHelmText, NoTool)
       \/ /\ k \in FreeOps
          /\ Becomes(w2,
                  Suspend(o2, k,
                          Op("start", via, name, slot, "repo", StartPayload(DV, S1, S2),
                             ((DOMAIN S2) \cap K1 \cap kept)
                                 \cup (IF i3.spawner.aliased THEN fromDV ELSE {}),
                             IF i3.spawner.aliased THEN {} ELSE fromDV,
                             0)),
                  NoResult, HelmCmd("repo", i3, EmptyDict))

\* variant: a start that goes to the namespace and the deploy without
\* setting status pending
StartPendingUnset(w, o, k, name, slot, via, i1, K1, S1) ==
    \E i2 \in {[i1 EXCEPT !.values = InPlace(@, S1, K1)]} :
    \E w1 \in {SaveToOrm([w EXCEPT !.insts[name][slot] = i2], name, slot)} :
    \E o1 \in {TouchOps(o, name, slot, "shV", Restrict(S1, K1))} :
    \E fails \in {"none", "read", "write"} :
    \E ens \in {EnsureNamespace(namespaces, i1.namespace, i1.name, i1.owner,
                                allow_namespace_creation, fails)} :
       /\ namespaces' = ens.namespaces
       /\ IF ~ens.ok
          THEN Ends(ErrorPath(w1, name, slot, "start", ens.error), o1,
                    "start", via, name, slot, "raised", "namespace", ens.error, NoTool)
          ELSE \E S2 \in {IF S1 # EmptyDict THEN Sanitize(LiveCluster, S1) ELSE EmptyDict} :
                  StartDeploy(k, name, slot, via, w1, o1, K1, S1, S2)

\* HubInstance.start from status pending on: save, then spawner.start with
\* its _ensure_namespace (fails: the cluster call of it that fails with an
\* ApiException other than 404: none, read_namespace, or patch_namespace /
\* create_namespace)
StartPending(w, o, k, name, slot, via, i1, K1, S1) ==
    \E i2 \in {[i1 EXCEPT !.values = InPlace(@, S1, K1), !.status = "pending"]} :
    \E w1 \in {SaveToOrm([w EXCEPT !.insts[name][slot] = i2], name, slot)} :
    \E o1 \in {TouchOps(o, name, slot, "shV", Restrict(S1, K1))} :
    \E fails \in {"none", "read", "write"} :
    \E ens \in {EnsureNamespace(namespaces, i1.namespace, i1.name, i1.owner,
                                allow_namespace_creation, fails)} :
       /\ namespaces' = ens.namespaces
       /\ IF ~ens.ok
          THEN Ends(ErrorPath(w1, name, slot, "start", ens.error), o1,
                    "start", via, name, slot, "raised", "namespace", ens.error, NoTool)
          ELSE \E S2 \in {IF S1 # EmptyDict THEN Sanitize(LiveCluster, S1) ELSE EmptyDict} :
                  StartDeploy(k, name, slot, via, w1, o1, K1, S1, S2)

\* HubInstance.start when _validate_helm_values raised: no status change, but
\* the sections it had walked are changed
StartUnsanitized(w, o, name, slot, via, i1, K1, part) ==
    Ends([w EXCEPT !.insts[name][slot].spawner = i1.spawner,
                   !.insts[name][slot].values = InPlace(@, part, K1)],
         TouchOps(o, name, slot, "shV", Restrict(part, K1)),
         "start", via, name, slot, "raised", "sanitize", <<"TypeError">>, NoTool)

\* HubInstance.start up to the first await: merge, build the spawner,
\* sanitize, status pending, then spawner.start.  (w, o): the state as the
\* handler that calls it has made it
BeginStart(w, o, k, name, via, overrides) ==
    /\ files' = files
    /\ Takes(k)
    /\ name \in DOMAIN w.hubs
    /\ (via = "direct") <=> (overrides # EmptyDict)
    /\ \E slot \in {w.hubs[name]} : \E i \in {w.insts[name][w.hubs[name]]} :
          \/ /\ ~i.spawner.built
             /\ namespaces' = namespaces
             /\ Ends(w, o, "start", via, name, slot, "raised", "client",
                     ClientInitText, NoTool)
          \/ \E i1 \in {GetSpawner(i)} :
             \E K1 \in {(DOMAIN i.values) \ (DOMAIN overrides)} :
             \E merged_values \in {Merge(i.values, overrides)} :
                IF SanitizeRaises(LiveCluster, merged_values)
                THEN \E part \in {SanBeforeAffinity(LiveCluster, merged_values)} :
                        /\ namespaces' = namespaces
                        /\ StartUnsanitized(w, o, name, slot, via, i1, K1, part)
                ELSE \E S1 \in {Sanitize(LiveCluster, merged_values)} :
                        StartPending(w, o, k, name, slot, via, i1, K1, S1)

\* _deploy_helm_release: its own last checks on the payload, before the
\* values file is written (they change the nested sections in place)
DeployFinalBeforeAffinity(cl, values) ==
    Only({SanDb(cl, IF HasDict(v1, "singleuser")
                    THEN Put(v1, "singleuser", MapN(SanStorage(cl, v1["singleuser"].v)))
                    ELSE v1)
          : v1 \in {EnsureRequiredFields(values)}})

\* the node affinity loops of _deploy_helm_release raise
DeployFinalRaises(cl, values) ==
    \E v \in {DeployFinalBeforeAffinity(cl, values)} : TreeAffinityRaises(v)

\* the payload as _deploy_helm_release writes it to the values file
DeployFinal(cl, values) ==
    Only({IF HasDict(v, "singleuser")
          THEN Put(v, "singleuser", MapN(SanAffinity(cl, v["singleuser"].v)))
          ELSE v
          : v \in {DeployFinalBeforeAffinity(cl, values)}})

\* the values files on disk after this part of _deploy_helm_release: the
\* file is made by NamedTemporaryFile(delete=False) once the last checks have
\* passed; a failing yaml.dump leaves it (the try block is not entered yet);
\* a failing launch ends in the finally clause, which unlinks it
FilesAfterWrite(raises, launch) ==
    IF ~raises /\ launch \in {"ok", "write"} THEN files + 1 ELSE files

\* _ensure_helm_repo after helm repo add ended (its exit code is not looked
\* at): the launch of helm repo update, which fails when helm is gone
\* (launch "fail")
AfterRepo(k, launch) ==
    /\ ops[k].kind = "start" /\ ops[k].pc = "repo"
    /\ files' = files
    /\ namespaces' = namespaces
    /\ \E op \in {ops[k]} :
          IF launch = "fail"
          THEN Ends(ErrorPath(World, op.name, op.slot, "start", NoHelmText), Resume(k),
                    "start", op.via, op.name, op.slot, "raised", "update", NoHelmText,
                    NoTool)
          ELSE Becomes(World, Suspend(ops, k, [op EXCEPT !.pc = "update"]),
                       NoResult, HelmCmd("update", insts[op.name][op.slot], EmptyDict))

\* _deploy_helm_release after helm repo update ended (its exit code is not
\* looked at either): the last checks, the values file, and the launch of
\* helm upgrade --install.  launch: the first of these that fails ("write":
\* the values file, "fail": helm upgrade), or "ok"
AfterRepoUpdate(k, launch) ==
    /\ ops[k].kind = "start" /\ ops[k].pc = "update"
    /\ files' = FilesAfterWrite(DeployFinalRaises(LiveCluster, ops[k].payload), launch)
    /\ namespaces' = namespaces
    /\ \E op \in {ops[k]} :
       \E raises \in {DeployFinalRaises(LiveCluster, op.payload)} :
       \E values \in {IF raises THEN DeployFinalBeforeAffinity(LiveCluster, op.payload)
                      ELSE DeployFinal(LiveCluster, op.payload)} :
       \E w1 \in {[World EXCEPT
                     !.insts[op.name][op.slot].values = InPlace(@, values, op.shV),
                     !.insts[op.name][op.slot].spawner.dv = InPlace(@, values, op.shDv)]} :
       \E t1 \in {TouchOps(Resume(k), op.name, op.slot, "shV", Restrict(values, op.shV))} :
       \E o1 \in {TouchOps(t1, op.name, op.slot, "shDv", Restrict(values, op.shDv))} :
          IF raises \/ launch # "ok"
          THEN \E text \in {IF raises THEN <<"TypeError">>
                             ELSE IF launch = "write"
                             THEN <<"[Errno 28]", "No", "space", "left", "on", "device">>
                             ELSE NoHelmText} :
                  Ends(ErrorPath(w1, op.name, op.slot, "start", text), o1,
                       "start", op.via, op.name, op.slot, "raised",
                       IF ~raises /\ launch = "write" THEN "write" ELSE "launch",
                       text, NoTool)
          ELSE Becomes(w1, Suspend(o1, k, [op EXCEPT !.pc = "helm", !.payload = values]),
                       NoResult, HelmCmd("upgrade", w1.insts[op.name][op.slot], values))

\* HubInstance.start after spawner.start returned (namespace, url)
Started(k, op, url, how) ==
    Ends(SaveToOrm([World EXCEPT !.insts[op.name][op.slot].status = "running",
                                 !.insts[op.name][op.slot].url = url],
                   op.name, op.slot),
         Resume(k), "start", op.via, op.name, op.slot, "ok", how, <<>>, op.tool)

\* variant: a start that stores status running once helm has ended, before
\* the readiness wait is over
WaitTurnSavingEarly(k, op, elapsed, ready) ==
    IF elapsed < StartTimeout
    THEN CASE ready = "service" ->
                  Started(k, op, ServiceUrl(insts[op.name][op.slot].namespace), "ready")
           [] ready = "ingress" -> Started(k, op, IngressUrl, "ready")
           [] OTHER -> Becomes(SaveToOrm([World EXCEPT
                                            !.insts[op.name][op.slot].status = "running"],
                                         op.name, op.slot),
                               Suspend(ops, k, [op EXCEPT !.pc = "wait", !.elapsed = elapsed]),
                               NoResult, NoHelm)
    ELSE Started(k, op, PlaceholderUrl(insts[op.name][op.slot].name), "timeout")

\* variant: a readiness loop that looks once more after the timeout
WaitTurnLate(k, op, elapsed, ready) ==
    IF elapsed < StartTimeout + WaitInterval
    THEN CASE ready = "service" ->
                  Started(k, op, ServiceUrl(insts[op.name][op.slot].namespace), "ready")
           [] ready = "ingress" -> Started(k, op, IngressUrl, "ready")
           [] OTHER -> Becomes(World,
                               Suspend(ops, k, [op EXCEPT !.pc = "wait", !.elapsed = elapsed]),
                               NoResult, NoHelm)
    ELSE Started(k, op, PlaceholderUrl(insts[op.name][op.slot].name), "timeout")

\* variant: a readiness loop whose timeout is an error
WaitTurnRaising(k, op, elapsed, ready) ==
    IF elapsed < StartTimeout
    THEN CASE ready = "service" ->
                  Started(k, op, ServiceUrl(insts[op.name][op.slot].namespace), "ready")
           [] ready = "ingress" -> Started(k, op, IngressUrl, "ready")
           [] OTHER -> Becomes(World,
                               Suspend(ops, k, [op EXCEPT !.pc = "wait", !.elapsed = elapsed]),
                               NoResult, NoHelm)
    ELSE Ends(ErrorPath(World, op.name, op.slot, "start", <<"TimeoutError">>), Resume(k),
              "start", op.via, op.name, op.slot, "raised", "timeout", <<"TimeoutError">>,
              op.tool)

\* one turn of the loop of _wait_for_hub_ready at `elapsed` seconds
WaitTurn(k, op, elapsed, ready) ==
    IF elapsed < StartTimeout
    THEN CASE ready = "service" ->
                  Started(k, op, ServiceUrl(insts[op.name][op.slot].namespace), "ready")
           [] ready = "ingress" -> Started(k, op, IngressUrl, "ready")
           [] OTHER -> Becomes(World,
                               Suspend(ops, k, [op EXCEPT !.pc = "wait", !.elapsed = elapsed]),
                               NoResult, NoHelm)
    ELSE Started(k, op, PlaceholderUrl(insts[op.name][op.slot].name), "timeout")

\* helm upgrade --install ended; after a deploy, the first look of the
\* readiness loop
HelmDone(k, answer, ready) ==
    /\ ops[k].kind = "start" /\ ops[k].pc = "helm"
    /\ files' = files - 1
    /\ namespaces' = namespaces
    /\ answer.rc # 0 => ready = "none"
    /\ \E op \in {ops[k]} :
          IF answer.rc # 0
          THEN \E text \in {<<"Helm deployment failed:">> \o ToolOutput(answer)} :
                  Ends(ErrorPath(World, op.name, op.slot, "start", text), Resume(k),
                       "start", op.via, op.name, op.slot, "raised", "deploy", text, answer)
          ELSE WaitTurn(k, [op EXCEPT !.tool = answer], 0, ready)

\* asyncio.sleep(wait_interval) of the readiness loop ended
WaitWake(k, ready) ==
    /\ files' = files
    /\ namespaces' = namespaces
    /\ ops[k].kind = "start" /\ ops[k].pc = "wait"
    /\ WaitTurn(k, ops[k], ops[k].elapsed + WaitInterval, ready)

\* ------------------------------------------------------------------ HubInstance.stop, delete_hub

\* HubInstance.stop up to the await of helm uninstall, as a stop or as the
\* first part of delete_hub
StopFrom(w, o, k, kind, via, name, slot) ==
    \E i \in {w.insts[name][slot]} :
       \/ /\ ~i.spawner.built
          /\ Ends(ErrorPath(w, name, slot, "stop", ClientInitText), o,
                  kind, via, name, slot, "raised", "client", ClientInitText, NoTool)
       \/ \E w1 \in {[w EXCEPT !.insts[name][slot] = GetSpawner(i)]} :
             \/ Ends(ErrorPath(w1, name, slot, "stop", NoHelmText), o,
                     kind, via, name, slot, "raised", "launch", NoHelmText, NoTool)
             \/ /\ k \in FreeOps
                /\ Becomes(w1,
                        Suspend(o, k, Op(kind, via, name, slot, "uninstall",
                                           EmptyDict, {}, {}, 0)),
                        NoResult, HelmCmd("uninstall", i, EmptyDict))

\* HubInstance.stop
BeginStop(w, o, k, name, via) ==
    /\ files' = files
    /\ namespaces' = namespaces
    /\ Takes(k)
    /\ name \in DOMAIN w.hubs
    /\ StopFrom(w, o, k, "stop", via, name, w.hubs[name])

\* delete_hub after the stop, if any: db.delete(hub.orm_hub), db.commit(),
\* del self.hubs[name].  The delete cascades to the events the session has
\* flushed or loaded; an event appended since the last flush is pending, is
\* left out, and the commit INSERTs it with the hub_id of the row it DELETEs
\* (no foreign key is enforced).  A Hub object whose row is gone already is
\* attached again; its DELETE, and that of the events it holds, match no row
\* or the rows it left, which is a warning at most: the commit goes through
\* and the del finds no entry (KeyError), or the entry of a hub created under
\* the name since, which it takes out of the index while the row stays.  When
\* a row created since has the id of the old one, the session refuses a
\* second object of that identity (InvalidRequestError, nothing done).
Remove(w, o, via, name, slot, tool) ==
    \E gone \in {~w.insts[name][slot].live} :
    \E id \in {w.insts[name][slot].orm_hub} :
    \E w1 \in {Commit(IF gone THEN [w EXCEPT !.hub_events = Del(@, id)]
                      ELSE [w EXCEPT
                              !.orm = Del(@, name),
                              !.session = Del(@, name),
                              !.hub_events =
                                  IF Len(w.orm[name].events) > Len(w.session[name].tx.events)
                                  THEN Put(@, id,
                                           SubSeq(w.orm[name].events,
                                                  Len(w.session[name].tx.events) + 1,
                                                  Len(w.orm[name].events)))
                                  ELSE @,
                              !.insts[name] = [s \in Slots |->
                                  IF @[s] = NoInst THEN NoInst
                                  ELSE [@[s] EXCEPT !.live = FALSE]]])} :
       IF gone /\ \E n \in DOMAIN w.orm : w.orm[n].id = id
       THEN Ends(w, o, "delete", via, name, slot, "raised", "remove",
                 <<"InvalidRequestError">>, tool)
       ELSE IF name \in DOMAIN w.hubs
       THEN Ends([w1 EXCEPT !.hubs = Del(@, name)],
                 o, "delete", via, name, slot, "ok", "", <<>>, tool)
       ELSE Ends(w1, o, "delete", via, name, slot, "raised", "remove",
                 <<"KeyError">>, tool)

\* JupyterCluster.delete_hub.  (w, o): the state as the handler that calls
\* it has made it
BeginDelete(w, o, k, name, via) ==
    /\ files' = files
    /\ namespaces' = namespaces
    /\ Takes(k)
    /\ name \in DOMAIN w.hubs
    /\ IF w.insts[name][w.hubs[name]].status = "running"
       THEN StopFrom(w, o, k, "delete", via, name, w.hubs[name])
       ELSE Remove(w, o, via, name, w.hubs[name], NoTool)

\* variant: the "not found" test without lower()
IsNotFoundExact(error_msg) == Contains(error_msg, <<"not", "found">>)

\* `"not found" in error_msg.lower()`
IsNotFound(error_msg) == Contains(Lower(error_msg), <<"not", "found">>)

\* helm uninstall ended: the rest of HubInstance.stop, and of delete_hub
UninstallDone(k, answer) ==
    /\ files' = files
    /\ namespaces' = namespaces
    /\ ops[k].kind \in {"stop", "delete"} /\ ops[k].pc = "uninstall"
    /\ \E op \in {ops[k]} :
          IF answer.rc = 0 \/ IsNotFound(ToolOutput(answer))
          THEN \E w1 \in {SaveToOrm([World EXCEPT
                                       !.insts[op.name][op.slot].status = "stopped"],
                                    op.name, op.slot)} :
                  IF op.kind = "stop"
                  THEN Ends(w1, Resume(k), "stop", op.via, op.name, op.slot,
                            "ok", "", <<>>, answer)
                  ELSE \E o1 \in {Resume(k)} :
                          Remove(w1, o1, op.via, op.name, op.slot, answer)
          ELSE \E text \in {<<"Helm deletion failed:">> \o ToolOutput(answer)} :
                  Ends(ErrorPath(World, op.name, op.slot, "stop", text), Resume(k),
                       op.kind, op.via, op.name, op.slot, "raised", "teardown", text, answer)

\* HubDetailHandler.post, the values and the description of the form: the
\* values sanitized, assigned and saved, then the save for the description
\* (the text itself is not kept here), each with its commit
Updated(w, o, name, slot, field, description) ==
    LET i == w.insts[name][slot]
        i2 == AssignValues(GetSpawner(i), Sanitize(LiveCluster, field.values))
        w1 == IF field.given = "yes"
              THEN Commit(SaveToOrm([Released(w, name, slot)
                                        EXCEPT !.insts[name][slot] = i2], name, slot))
              ELSE w
    IN  [w |-> IF description THEN Commit(SaveToOrm(w1, name, slot)) ELSE w1,
         o |-> IF field.given = "yes"
               THEN Reassigned(o, name, slot, GetSpawner(i).spawner.aliased) ELSE o]

\* HubDetailHandler.post up to its first await: the values, the description,
\* and the action of the form
Post(k, name, field, description, action) ==
    /\ name \in DOMAIN hubs
    /\ Takes(k)
    /\ \E slot \in {hubs[name]} : \E i \in {insts[name][hubs[name]]} :
          \/ /\ field.given = "invalid"
             /\ files' = files
             /\ namespaces' = namespaces
             /\ Becomes(World, ops,
                        Outcome("update", "web", name, "returned", "parse", <<"ValueError">>,
                                NoTool, i, i.status, <<>>),
                        NoHelm)
          \/ /\ field.given = "yes"
             /\ ~i.spawner.built
             /\ files' = files
             /\ namespaces' = namespaces
             /\ Ends(World, ops, "update", "web", name, slot, "raised", "client",
                     ClientInitText, NoTool)
          \/ /\ field.given = "yes"
             /\ SanitizeRaises(LiveCluster, field.values)
             /\ files' = files
             /\ namespaces' = namespaces
             /\ Ends([World EXCEPT !.insts[name][slot] = GetSpawner(i)], ops,
                     "update", "web", name, slot, "raised", "sanitize", <<"TypeError">>,
                     NoTool)
          \/ /\ field.given = "no" \/ (field.given = "yes"
                                        /\ ~SanitizeRaises(LiveCluster, field.values))
             /\ \E u \in {Updated(World, ops, name, slot, field, description)} :
                   CASE action = "start" -> BeginStart(u.w, u.o, k, name, "web", EmptyDict)
                     [] action = "stop" -> BeginStop(u.w, u.o, k, name, "web")
                     [] action = "delete" -> BeginDelete(u.w, u.o, k, name, "web")
                     [] action = "" ->
                          /\ files' = files
                          /\ namespaces' = namespaces
                          /\ Becomes(u.w, u.o,
                                     Outcome("update", "web", name, "ok", "", <<>>, NoTool,
                                             u.w.insts[name][slot], i.status, <<>>),
                                     NoHelm)
                     [] OTHER ->
                          /\ files' = files
                          /\ namespaces' = namespaces
                          /\ Ends(u.w, u.o, "update", "web", name, slot, "raised", "action",
                                  <<"HTTP 400: Bad Request (Unknown action: ">>
                                      \o <<action, ")">>,
                                  NoTool)

\* ------------------------------------------------------------------ HubInstance.poll

\* pods.items of one listing, of the pods a namespace can hold: name (in
\* pieces) and status.phase
PodLists ==
    LET Pods ==
          {[name |-> <<"jupyterhub", "-hub">>, phase |-> "Running"],
           [name |-> <<"jupyterhub", "-hub">>, phase |-> "Pending"],
           [name |-> <<"hub-", "JupyterHub", "-0">>, phase |-> "Running"],
           [name |-> <<"jupyterhub", "-proxy">>, phase |-> "Failed"],
           [name |-> <<"proxy">>, phase |-> "Running"]}
    IN  UNION {[1..n -> Pods] : n \in 0..MaxPods}

\* what the cluster answers to one poll: whether a client can be built (asked
\* only of a hub object that has no spawner yet), read_namespace (found,
\* missing = 404, error), list_namespaced_pod (ok, error) and its pods; an
\* answer the poll never gets to ask for is left at its first value
Probes ==
    {[client |-> c, read |-> r, list |-> l, pods |-> q] :
        c \in {"ok", "fail"}, r \in {"found", "missing", "error"},
        l \in {"ok", "error"}, q \in PodLists} \
    {p \in [client : {"ok", "fail"}, read : {"found", "missing", "error"},
            list : {"ok", "error"}, pods : PodLists] :
        \/ p.client = "fail" /\ (p.read # "found" \/ p.list # "ok" \/ p.pods # <<>>)
        \/ p.read # "found" /\ (p.list # "ok" \/ p.pods # <<>>)
        \/ p.list # "ok" /\ p.pods # <<>>}

\* the return values of HubSpawner.poll: None (running) and 1 (stopped)
PollNone == "None"
PollOne == "1"

\* hub_pods = [p for p in pods.items if "jupyterhub" in p.metadata.name.lower()]
HubPods(pods) ==
    SelectSeq(pods, LAMBDA p : Contains(Lower(p.name), <<"jupyterhub">>))

\* variant: a poll that takes any hub pod for a running hub
SpawnerPollAnyPhase(read, list, pods) ==
    IF read = "found" /\ list = "ok" /\ HubPods(pods) # <<>> THEN PollNone ELSE PollOne

\* HubSpawner.poll
SpawnerPoll(read, list, pods) ==
    IF read = "missing" THEN PollOne
    ELSE IF read # "found" \/ list # "ok" THEN PollOne
    ELSE LET hub_pods == HubPods(pods)
         IN  IF hub_pods = <<>> THEN PollOne
             ELSE IF \E j \in 1..Len(hub_pods) :
                        /\ hub_pods[j].phase \in {"Running", "Pending"}
                        /\ hub_pods[j].phase = "Running"
                  THEN PollNone ELSE PollOne

\* what a poll gave its caller, with the probe it made and the stored status
\* of the hub it ran on
Polled(name, probe, outcome, i) ==
    [kind |-> "poll", name |-> name, probe |-> probe, outcome |-> outcome,
     status |-> i.status]

\* HubInstance.poll
Poll(name, probe) ==
    /\ files' = files
    /\ namespaces' = namespaces
    /\ name \in DOMAIN hubs
    /\ \E slot \in {hubs[name]} : \E i \in {insts[name][hubs[name]]} :
          /\ i.spawner.built => probe.client = "ok"
          /\ (probe.client = "ok" /\ probe.read # "error") =>
                (probe.read = "found" <=> i.namespace \in DOMAIN namespaces)
          /\ IF probe.client = "fail"
             THEN Becomes(World, ops, Polled(name, probe, "raised", i), NoHelm)
             ELSE Becomes([World EXCEPT !.insts[name][slot] = GetSpawner(i)], ops,
                          Polled(name, probe, SpawnerPoll(probe.read, probe.list, probe.pods), i),
                          NoHelm)

\* ------------------------------------------------------------------ the sanitizer alone

\* a call of _validate_helm_values about to be made: the cluster it reads, the
\* tree first handed in, the tree handed in now, and how many calls came before
Validating(cl, origin, values, round) ==
    [kind |-> "validate", name |-> <<>>, slot |-> 0, cluster |-> cl,
     origin |-> origin, values |-> values, round |-> round]

\* what _validate_helm_values gave its caller, and its argument as the call
\* left it (after)
Validated(o, outcome, sanitized, after) ==
    [kind |-> "sanitize", cluster |-> o.cluster, origin |-> o.origin,
     values |-> o.values, round |-> o.round + 1, outcome |-> outcome,
     sanitized |-> sanitized, after |-> after]

\* one call of HubSpawner._validate_helm_values; what it returns is handed in
\* again, once
Validate(k) ==
    /\ ops[k].kind = "validate"
    /\ ops[k].round < 2
    /\ IF SanitizeRaises(ops[k].cluster, ops[k].values)
       THEN /\ result' = Validated(ops[k], "raised", EmptyDict,
                                   InPlace(ops[k].values,
                                           SanBeforeAffinity(ops[k].cluster, ops[k].values),
                                           DOMAIN ops[k].values))
            /\ ops' = [ops EXCEPT ![k] = Idle]
       ELSE \E sanitized \in {Sanitize(ops[k].cluster, ops[k].values)} :
               /\ result' = Validated(ops[k], "ok", sanitized,
                                      InPlace(ops[k].values, sanitized, DOMAIN ops[k].values))
               /\ ops' = [ops EXCEPT ![k] =
                             Validating(ops[k].cluster, ops[k].origin, sanitized,
                                        ops[k].round + 1)]
    /\ UNCHANGED <<hubs, insts, orm, session, db, helm, calls, users, prefix, files,
                   allow_namespace_creation, namespaces, hub_events, id_sequence>>

\* ------------------------------------------------------------------ users and pages

\* orm.User: the columns create_hub reads
UserRow(max_hubs, allowed_namespace_prefixes) ==
    [max_hubs |-> max_hubs, allowed_namespace_prefixes |-> allowed_namespace_prefixes]

\* what a users handler or a page gave its caller: the HTTP status
Answered(kind, username, code) ==
    [kind |-> kind, name |-> <<>>, owner |-> username,
     outcome |-> IF code < 400 THEN "ok" ELSE "raised", code |-> code, error |-> <<>>]

\* a handler that touches no hub and no process: the session and the users
\* table as it leaves them
Leaves(w, r, u) ==
    /\ files' = files
    /\ namespaces' = namespaces
    /\ Settles(w, ops, r, NoHelm, u)

\* UserAPIHandler.post: the query (which flushes the session), 409 for a
\* name that has a row, else the row added and the session committed
UserPost(username, body) ==
    IF username \in DOMAIN users
    THEN Leaves(Flush(World), Answered("user_post", username, 409), users)
    ELSE Leaves(Commit(World), Answered("user_post", username, 201),
                Put(users, username,
                    UserRow(IF "max_hubs" \in DOMAIN body THEN body["max_hubs"] ELSE NoneN,
                            IF "allowed_namespace_prefixes" \in DOMAIN body
                            THEN body["allowed_namespace_prefixes"] ELSE <<>>)))

\* UserAPIHandler.put: the query, 404 for a name without a row, else the
\* fields of the body set and the session committed
UserPut(username, body) ==
    IF username \notin DOMAIN users
    THEN Leaves(Flush(World), Answered("user_put", username, 404), users)
    ELSE Leaves(Commit(World), Answered("user_put", username, 200),
                [users EXCEPT ![username] = Merge(@, body)])

\* UserAPIHandler.delete: the query, 404 for a name without a row, 400 for
\* the owner of a hub, else the row deleted and the session committed
UserDelete(username) ==
    IF username \notin DOMAIN users
    THEN Leaves(Flush(World), Answered("user_delete", username, 404), users)
    ELSE IF UserHubs(username) # {}
    THEN Leaves(Flush(World), Answered("user_delete", username, 400), users)
    ELSE Leaves(Commit(World), Answered("user_delete", username, 204), Del(users, username))

\* UserAPIHandler.get: the query, 404 for a name without a row
UserGet(username) ==
    Leaves(Flush(World),
           Answered("user_get", username, IF username \in DOMAIN users THEN 200 ELSE 404),
           users)

\* a page or a call that reads the users table and no more
\* (HubCreateHandler.get, ProfileHandler.get, UserListAPIHandler.get): the
\* query flushes the session
UsersQuery == Leaves(Flush(World), Answered("users_query", "", 200), users)

\* AdminHandler.get: the session rolled back, then the users read
AdminPage == Leaves(EndTransaction(World, FALSE), Answered("admin_page", "", 200), users)

\* ------------------------------------------------------------------ the machine

\* The inputs.  create_hub: no values, the tenant's tree, or the tree the
\* deploy changes.  The values field of the web form: not sent, text that is
\* no YAML or JSON, or a tree.  The overrides of a direct start: none,
\* {"namespace": "default", "proxy": {}}, or the tree the sanitizer cannot walk
Next ==
    \/ \E name \in HubNames \cup {Char("-")}, values \in {EmptyDict, TreeRaw, TreeGold} :
          Call /\ CreateHub(name, Owner, values)
    \/ Call /\ Restart
    \/ \E k \in OpIds, name \in HubNames,
          field \in {[given |-> "no", values |-> EmptyDict],
                     [given |-> "invalid", values |-> EmptyDict],
                     [given |-> "yes", values |-> TreeRaw],
                     [given |-> "yes", values |-> TreeBad]},
          description \in BOOLEAN,
          action \in {"", "start", "stop", "delete", "restart"} :
          Call /\ Post(k, name, field, description, action)
    \/ \E k \in OpIds, name \in HubNames, via \in {"api", "direct"},
          overrides \in {EmptyDict,
                         [x \in {"namespace", "proxy"} |->
                             IF x = "namespace" THEN StrN("default") ELSE MapN(<<>>)],
                         TreeBad} :
          Call /\ BeginStart(World, ops, k, name, via, overrides)
    \/ \E k \in OpIds, launch \in {"ok", "fail"} : AfterRepo(k, launch) /\ Goes
    \/ \E k \in OpIds, launch \in {"ok", "write", "fail"} : AfterRepoUpdate(k, launch) /\ Goes
    \/ \E k \in OpIds, answer \in UpgradeAnswers, ready \in ReadyAnswers :
          HelmDone(k, answer, ready) /\ Goes
    \/ \E k \in OpIds, ready \in ReadyAnswers : WaitWake(k, ready) /\ Goes
    \/ \E k \in OpIds, name \in HubNames : Call /\ BeginStop(World, ops, k, name, "api")
    \/ \E k \in OpIds, name \in HubNames : Call /\ BeginDelete(World, ops, k, name, "api")
    \/ \E k \in OpIds, answer \in UninstallAnswers : UninstallDone(k, answer) /\ Goes
    \/ \E body \in {EmptyDict, Dict1("max_hubs", IntN(1))} : Call /\ UserPost(Owner, body)
    \/ \E body \in {EmptyDict, Dict1("max_hubs", IntN(1))} : Call /\ UserPut(Owner, body)
    \/ Call /\ UserDelete(Owner)
    \/ Call /\ UserGet(Owner)
    \/ Call /\ UsersQuery
    \/ Call /\ AdminPage

Spec == Init /\ [][Next]_vars

\* the event loop wakes a coroutine whose sleep is over: a sleep of the
\* readiness loop ends.  Nothing makes a helm run exit: every
\* process.communicate() is awaited without a timeout.
SpecLive ==
    /\ Init /\ [][Next]_vars
    /\ WF_vars(\E k \in OpIds, ready \in ReadyAnswers : WaitWake(k, ready) /\ Goes)

\* JupyterCluster.__init__ on a store that holds hubs already: _load_hubs
\* builds a HubInstance for every row.  A run from here makes one call fewer
\* than a run from the empty store.
InitLoaded ==
    /\ prefix = DefaultNamespacePrefix
    /\ users = EmptyDict
    /\ files = 0
    /\ allow_namespace_creation = TRUE
    /\ namespaces = EmptyDict
    /\ db = [n \in HubNames |->
                [NewRow(n, Owner, EmptyDict) EXCEPT !.id = IF n = Char("a") THEN 1 ELSE 2]]
    /\ hub_events = EmptyDict
    /\ id_sequence \in {0 - 1, 2}
    /\ orm = db
    /\ session = [n \in DOMAIN db |-> SessionRow(0, db[n])]
    /\ hubs = [n \in HubNames |-> 0]
    /\ insts = [n \in HubNames |-> [s \in Slots |->
                   IF s = 0 THEN LoadFromOrm(db[n]) ELSE NoInst]]
    /\ ops = [k \in OpIds |-> Idle]
    /\ result = NoResult
    /\ helm = NoHelm
    /\ calls = 1

\* the same machine, begun on a store with two hubs
SpecLoaded == InitLoaded /\ [][Next]_vars

\* JupyterCluster.__init__ on a store that holds one hub, running at its
\* service URL, and no call made yet
InitStored ==
    /\ prefix = DefaultNamespacePrefix
    /\ users = EmptyDict
    /\ files = 0
    /\ allow_namespace_creation = TRUE
    /\ namespaces = [x \in {Namespace(Char("a"))} |-> MapN(OwnershipLabels(Char("a"), Owner))]
    /\ db = [n \in {Char("a")} |->
                [NewRow(n, Owner, EmptyDict) EXCEPT !.id = 1,
                                                    !.status = "running",
                                                    !.url = ServiceUrl(Namespace(n))]]
    /\ hub_events = EmptyDict
    /\ id_sequence \in {0 - 1, 1}
    /\ orm = db
    /\ session = [n \in DOMAIN db |-> SessionRow(0, db[n])]
    /\ hubs = [n \in DOMAIN db |-> 0]
    /\ insts = [n \in HubNames |-> [s \in Slots |->
                   IF n \in DOMAIN db /\ s = 0 THEN LoadFromOrm(db[n]) ELSE NoInst]]
    /\ ops = [k \in OpIds |-> Idle]
    /\ result = NoResult
    /\ helm = NoHelm
    /\ calls = 0

\* requests for the stored hub: the web form (a start, a delete, an action
\* it does not know), starts and deletes through the API with their steps,
\* the admin page, and a hub created under the same name again
NextStored ==
    \/ Call /\ CreateHub(Char("a"), Owner, EmptyDict)
    \/ \E k \in OpIds, action \in {"start", "delete", "restart"} :
          Call /\ Post(k, Char("a"), [given |-> "no", values |-> EmptyDict], FALSE, action)
    \/ \E k \in OpIds : Call /\ BeginStart(World, ops, k, Char("a"), "api", EmptyDict)
    \/ \E k \in OpIds, launch \in {"ok", "fail"} : AfterRepo(k, launch) /\ Goes
    \/ \E k \in OpIds, launch \in {"ok", "write", "fail"} : AfterRepoUpdate(k, launch) /\ Goes
    \/ \E k \in OpIds, answer \in UpgradeAnswers, ready \in ReadyAnswers :
          HelmDone(k, answer, ready) /\ Goes
    \/ \E k \in OpIds, ready \in ReadyAnswers : WaitWake(k, ready) /\ Goes
    \/ \E k \in OpIds : Call /\ BeginDelete(World, ops, k, Char("a"), "api")
    \/ \E k \in OpIds, answer \in UninstallAnswers : UninstallDone(k, answer) /\ Goes
    \/ Call /\ AdminPage

\* the life of a hub that the store held when the process began
SpecStored == InitStored /\ [][NextStored]_vars

\* a spawner about to sanitize some tree against some cluster
InitSan ==
    /\ prefix = DefaultNamespacePrefix
    /\ users = EmptyDict
    /\ files = 0
    /\ allow_namespace_creation = TRUE
    /\ namespaces = EmptyDict
    /\ hubs = EmptyDict
    /\ insts = [n \in HubNames |-> [s \in Slots |-> NoInst]]
    /\ orm = EmptyDict
    /\ session = EmptyDict
    /\ db = EmptyDict
    /\ hub_events = EmptyDict
    /\ id_sequence = 0 - 1
    /\ \E cl \in Clusters, values \in Trees :
          ops = [k \in OpIds |-> IF k = 1 THEN Validating(cl, values, values, 0) ELSE Idle]
    /\ result = NoResult
    /\ helm = NoHelm
    /\ calls = 0

NextSan == \E k \in OpIds : Validate(k)

SpecSan == InitSan /\ [][NextSan]_vars

\* hub names a caller can ask for: empty, plain, with a dash or an underscore
\* at some place, and two that bring the default namespace to 63 and to 64
\* characters
CreateNames ==
    {<<>>, Char("a"), Char("b"), Char("-"), <<"a", "-">>, <<"a", "_", "b">>,
     [i \in 1..52 |-> "a"], [i \in 1..53 |-> "a"]}

\* the users table: no row for an owner, or a row with a limit (None, 0, 1,
\* 2) and a list of namespace prefixes
UserTables ==
    LET TeamPrefix == <<"t", "e", "a", "m", "-">>
    IN
    {Merge(a, b) :
        a \in {EmptyDict} \cup
              {Dict1(Owner, u) :
                  u \in {UserRow(NoneN, <<>>), UserRow(IntN(0), <<>>),
                         UserRow(IntN(1), <<>>), UserRow(IntN(2), <<>>),
                         UserRow(NoneN, <<DefaultNamespacePrefix>>),
                         UserRow(NoneN, <<TeamPrefix>>),
                         UserRow(IntN(1), <<TeamPrefix, DefaultNamespacePrefix>>)}},
        b \in {EmptyDict, Dict1("bob", UserRow(IntN(1), <<>>))}}

\* JupyterCluster.__init__ on an empty hubs table, with some prefix
\* configured and some users stored
InitCreate ==
    /\ prefix \in {DefaultNamespacePrefix, <<>>}
    /\ users \in UserTables
    /\ files = 0
    /\ allow_namespace_creation = TRUE
    /\ namespaces = EmptyDict
    /\ hubs = EmptyDict
    /\ insts = [n \in CreateNames |-> [s \in Slots |-> NoInst]]
    /\ orm = EmptyDict
    /\ session = EmptyDict
    /\ db = EmptyDict
    /\ hub_events = EmptyDict
    /\ id_sequence = 0 - 1
    /\ ops = [k \in OpIds |-> Idle]
    /\ result = NoResult
    /\ helm = NoHelm
    /\ calls = 0

\* calls of create_hub, for every name and owner
NextCreate ==
    \E name \in CreateNames, owner \in {Owner, "bob"} : Call /\ CreateHub(name, owner, EmptyDict)

SpecCreate == InitCreate /\ [][NextCreate]_vars

\* JupyterCluster.__init__ on a store that holds one hub, of any status, with
\* its namespace in the cluster or not
InitPoll ==
    /\ prefix = DefaultNamespacePrefix
    /\ users = EmptyDict
    /\ files = 0
    /\ allow_namespace_creation = TRUE
    /\ \E n0 \in HubNames, st \in {"pending", "running", "stopped", "error"} :
          /\ db = [n \in {n0} |-> [NewRow(n, Owner, EmptyDict) EXCEPT !.id = 1,
                                                                       !.status = st]]
          /\ namespaces \in {EmptyDict,
                              [x \in {Namespace(n0)} |-> MapN(OwnershipLabels(n0, Owner))]}
    /\ hub_events = EmptyDict
    /\ id_sequence = 0 - 1
    /\ orm = db
    /\ session = [n \in DOMAIN db |-> SessionRow(0, db[n])]
    /\ hubs = [n \in DOMAIN db |-> 0]
    /\ insts = [n \in HubNames |-> [s \in Slots |->
                   IF n \in DOMAIN db /\ s = 0 THEN LoadFromOrm(db[n]) ELSE NoInst]]
    /\ ops = [k \in OpIds |-> Idle]
    /\ result = NoResult
    /\ helm = NoHelm
    /\ calls = 0

\* polls of the hubs, against every answer of the cluster
NextPoll ==
    \E name \in HubNames, probe \in Probes : Call /\ Poll(name, probe)

SpecPoll == InitPoll /\ [][NextPoll]_vars

\* the namespaces a cluster can hold when a hub is started: another
\* namespace always, and the hub's own absent, without labels, with no label,
\* with a label of somebody else's, or with ownership labels of another owner
NamespaceStates(namespace) ==
    LET other == [x \in {<<"default">>} |-> MapN(Dict1("team", StrN(<<"ops">>)))]
        team == Dict1("team", StrN(<<"ml">>))
    IN  {other} \cup
        {Put(other, namespace, labels) :
            labels \in {NoneN, MapN(EmptyDict), MapN(team),
                        MapN(Put(Put(team, "jupytercluster.io/owner", StrN(<<"bob">>)),
                                 "jupytercluster.io/managed", StrN(<<"false">>)))}}

\* JupyterCluster.__init__ on a store that holds one hub (one call, its
\* create_hub, was made), with the namespace policy configured either way and
\* the cluster's namespaces as they may be
InitNs ==
    /\ prefix = DefaultNamespacePrefix
    /\ users = EmptyDict
    /\ files = 0
    /\ allow_namespace_creation \in BOOLEAN
    /\ \E n0 \in HubNames :
          /\ db = [n \in {n0} |-> [NewRow(n, Owner, EmptyDict) EXCEPT !.id = 1]]
          /\ namespaces \in NamespaceStates(Namespace(n0))
    /\ hub_events = EmptyDict
    /\ id_sequence = 0 - 1
    /\ orm = db
    /\ session = [n \in DOMAIN db |-> SessionRow(0, db[n])]
    /\ hubs = [n \in DOMAIN db |-> 0]
    /\ insts = [n \in HubNames |-> [s \in Slots |->
                   IF n \in DOMAIN db /\ s = 0 THEN LoadFromOrm(db[n]) ELSE NoInst]]
    /\ ops = [k \in OpIds |-> Idle]
    /\ result = NoResult
    /\ helm = NoHelm
    /\ calls = 1

\* starts of the hubs, and the steps of a start
NextNs ==
    \/ \E k \in OpIds, name \in HubNames :
          Call /\ Post(k, name, [given |-> "no", values |-> EmptyDict], FALSE, "start")
    \/ \E k \in OpIds, name \in HubNames :
          Call /\ BeginStart(World, ops, k, name, "api", EmptyDict)
    \/ \E k \in OpIds, launch \in {"ok", "fail"} : AfterRepo(k, launch) /\ Goes
    \/ \E k \in OpIds, launch \in {"ok", "write", "fail"} : AfterRepoUpdate(k, launch) /\ Goes
    \/ \E k \in OpIds, answer \in UpgradeAnswers, ready \in ReadyAnswers :
          HelmDone(k, answer, ready) /\ Goes
    \/ \E k \in OpIds, ready \in ReadyAnswers : WaitWake(k, ready) /\ Goes

SpecNs == InitNs /\ [][NextNs]_vars

\* ------------------------------------------------------------------ properties

\* C1: the values payload that start hands to helm upgrade --install has no
\* top-level key outside the sanitizer's allow-list.
C1_PayloadAllowListed ==
    helm.cmd = "upgrade" => DOMAIN helm.values \subseteq AllowedHelmKeys

\* C2: the values of every Hub record, in the session and in the store, are a
\* fixed point of the sanitizer.
C2_StoredValuesSanitized ==
    /\ \A n \in DOMAIN db :
          /\ ~SanitizeRaises(LiveCluster, db[n].values)
          /\ Sanitize(LiveCluster, db[n].values) = db[n].values
    /\ \A n \in DOMAIN orm :
          /\ ~SanitizeRaises(LiveCluster, orm[n].values)
          /\ Sanitize(LiveCluster, orm[n].values) = orm[n].values

\* C3: every helm upgrade --install and every helm uninstall targets the
\* namespace prefix + hub name, whatever the stored values and the overrides.
C3_NamespaceFromName ==
    helm.cmd \in {"upgrade", "uninstall"} =>
        helm.namespace = DefaultNamespacePrefix \o helm.hub

\* C3 happens: a deploy for a hub whose stored values name a namespace
C3_DeployWithNamespaceInValues ==
    /\ helm.cmd = "upgrade"
    /\ helm.hub \in DOMAIN db
    /\ "namespace" \in DOMAIN db[helm.hub].values
    /\ helm.namespace = DefaultNamespacePrefix \o helm.hub

\* C4: no two existing hubs have the same namespace, and a create_hub for a
\* name whose namespace an existing hub has fails with a ValueError and
\* changes nothing.
C4_OneHubPerNamespace ==
    /\ [](/\ \A n \in DOMAIN db : \A m \in DOMAIN db :
                n # m => db[n].namespace # db[m].namespace
          /\ \A n \in DOMAIN hubs : \A m \in DOMAIN hubs :
                n # m => insts[n][hubs[n]].namespace # insts[m][hubs[m]].namespace)
    /\ [][(result'.kind = "create" /\ result'.name \in DOMAIN hubs) =>
             /\ result'.outcome = "ValueError"
             /\ UNCHANGED <<hubs, insts, orm, db>>]_vars

\* C4 happens: a create_hub for the name of an existing hub was refused
C4_DuplicateRefused ==
    /\ result.kind = "create"
    /\ result.outcome = "ValueError"
    /\ result.name \in DOMAIN db
    /\ Contains(result.error, <<"already in use">>)

\* C5: whenever start or stop raises, the hub's status is error and its
\* error_message holds the failure detail, whichever step failed.
C5_RaisedMeansError ==
    (result.kind \in {"start", "stop"} /\ result.outcome = "raised") =>
        /\ result.status = "error"
        /\ Contains(result.error_message, result.error)

\* C6: when helm upgrade --install exits non-zero with output S, start
\* raises, the status is error, error_message contains S, and exactly one
\* event of type error is appended to the hub's event log.
C6_DeployFailureRecorded ==
    (result.kind = "start" /\ result.tool.rc # 0) =>
        /\ result.outcome = "raised"
        /\ result.status = "error"
        /\ Contains(result.error_message, ToolOutput(result.tool))
        /\ Len(result.appended) = 1
        /\ result.appended[1].event_type = "error"

\* C7: after a failed start or stop that set status error on a hub whose
\* record exists, a hub object rebuilt from the store has status error and an
\* error_message containing the failure detail.
C7_FailurePersisted ==
    (result.kind \in {"start", "stop"} /\ result.outcome = "raised"
        /\ result.status = "error" /\ result.live) =>
        /\ result.name \in DOMAIN db
        /\ LoadFromOrm(db[result.name]).status = "error"
        /\ Contains(LoadFromOrm(db[result.name]).error_message, result.error)

\* C8: after a start returned successfully through the API or the web
\* handler, the stored record has status running and the url of the
\* readiness wait.
C8_StartedPersisted ==
    (result.kind = "start" /\ result.outcome = "ok" /\ result.live
        /\ result.via \in {"api", "web"}) =>
        /\ result.name \in DOMAIN db
        /\ db[result.name].status = "running"
        /\ db[result.name].url = result.url

\* C9: when the readiness wait finds no service before its timeout, start
\* completes with status running and the placeholder URL, and appends no event.
C9_TimeoutGivesPlaceholder ==
    (result.kind = "start" /\ result.step = "timeout") =>
        /\ result.outcome = "ok"
        /\ result.status = "running"
        /\ result.url = <<"https://">> \o result.name \o <<".example.com">>
        /\ result.appended = <<>>

\* C9 happens: a start whose readiness wait timed out
C9_StartTimedOut ==
    /\ result.kind = "start"
    /\ result.step = "timeout"
    /\ result.status = "running"

\* C10: a stop whose helm uninstall reports that the release was not found
\* completes without raising and leaves status stopped, the first time and
\* every time after.
C10_StopNotFoundSucceeds ==
    (result.kind = "stop" /\ result.tool.rc # 0
        /\ Contains(Lower(ToolOutput(result.tool)), <<"not", "found">>)) =>
        /\ result.outcome = "ok"
        /\ result.status = "stopped"

\* C10 happens: a stop of a hub that was stopped already, release not found
C10_StopRepeated ==
    /\ result.kind = "stop"
    /\ result.tool.rc # 0
    /\ Contains(Lower(ToolOutput(result.tool)), <<"not", "found">>)
    /\ result.was = "stopped"
    /\ result.status = "stopped"

\* C11: a hub's record leaves the store only in a delete_hub of that hub,
\* and a record that says running only at the end of the helm uninstall of
\* that delete, the stop that comes first (a delete through the web form is
\* left out of this part: its handler may save the form to the record
\* first); and a delete whose stop failed (no client, helm not launched, helm
\* uninstall failed) removes no record, keeps every event and keeps the hub
\* in the index.
C11_DeleteOnlyWhenNotRunning ==
    [][/\ \A n \in (DOMAIN db) \ (DOMAIN db') :
             /\ result'.kind = "delete"
             /\ result'.name = n
             /\ (orm[n].status = "running" /\ result'.via # "web") =>
                   /\ calls' = calls
                   /\ \E k \in OpIds : /\ ops[k].kind = "delete"
                                       /\ ops[k].pc = "uninstall"
                                       /\ ops[k].name = n
       /\ (/\ result'.kind = "delete"
           /\ result'.outcome = "raised"
           /\ result'.step \in {"client", "launch", "teardown"}) =>
             /\ DOMAIN db' = DOMAIN db
             /\ DOMAIN orm' = DOMAIN orm
             /\ \A n \in DOMAIN orm :
                   SubSeq(orm'[n].events, 1, Len(orm[n].events)) = orm[n].events
             /\ \A n \in DOMAIN db :
                   SubSeq(db'[n].events, 1, Len(db[n].events)) = db[n].events
             /\ DOMAIN hubs \subseteq DOMAIN hubs']_vars

\* C12: no two start, stop or delete operations on the same hub are in
\* flight (suspended at an await) at the same time.
C12_OneOperationPerHub ==
    \A j \in OpIds : \A k \in OpIds :
        (j # k /\ ops[j].kind # "idle" /\ ops[k].kind # "idle") =>
            ops[j].name # ops[k].name

\* C13: a start or stop that ends on one hub leaves every other hub as it
\* was: the object the index holds for it (status, url, values,
\* error_message) and its record with its events.
C13_OtherHubsUntouched ==
    [][result'.kind \in {"start", "stop"} =>
          \A m \in HubNames \ {result'.name} :
              /\ m \in DOMAIN hubs =>
                    /\ m \in DOMAIN hubs'
                    /\ insts'[m][hubs'[m]] = insts[m][hubs[m]]
              /\ m \in DOMAIN orm =>
                    /\ m \in DOMAIN orm'
                    /\ orm'[m] = orm[m]]_vars

\* C14: every change a step of a start or stop (a delete's stop included)
\* makes to the status of a hub's record is pending to running, running to
\* stopped, stopped to running, or a change to error.
C14_StatusTransitions ==
    [][(\/ result'.kind \in {"start", "stop", "delete"}
        \/ helm'.cmd # "none"
        \/ calls' = calls) =>
          \A n \in (DOMAIN orm) \cap (DOMAIN orm') :
              orm'[n].status # orm[n].status =>
                  \/ orm'[n].status = "error"
                  \/ <<orm[n].status, orm'[n].status>> \in
                        {<<"pending", "running">>, <<"running", "stopped">>,
                         <<"stopped", "running">>}]_vars

\* C15: poll never raises to its caller, whatever fails while probing.
C15_PollNeverRaises ==
    result.kind = "poll" => result.outcome # "raised"

\* C16: a poll that returns reports running (None) exactly when the
\* namespace is there and some pod whose name contains jupyterhub is in phase
\* Running, and stopped (1) otherwise, whatever the stored status.
C16_PollReadsCluster ==
    (result.kind = "poll" /\ result.outcome # "raised") =>
        /\ result.outcome \in {PollNone, PollOne}
        /\ result.outcome = PollNone <=>
              /\ result.probe.read = "found"
              /\ result.probe.list = "ok"
              /\ \E j \in 1..Len(result.probe.pods) :
                    /\ Contains(Lower(result.probe.pods[j].name), <<"jupyterhub">>)
                    /\ result.probe.pods[j].phase = "Running"

\* C16 happens: a hub stored as stopped polls running, next to a pod that is
\* not the hub's
C16_StoppedHubPollsRunning ==
    /\ result.kind = "poll"
    /\ result.status = "stopped"
    /\ result.outcome = PollNone
    /\ Len(result.probe.pods) = 2
    /\ result.probe.pods[1].name = <<"proxy">>

\* C17: the sanitized tree has exactly the allow-listed top-level keys of the
\* tree handed in; {foo: 1, hub: {}} gives exactly {hub: {}}.
C17_OnlyAllowedTopLevelKeys ==
    (result.kind = "sanitize" /\ result.outcome = "ok") =>
        /\ DOMAIN result.sanitized \subseteq AllowedHelmKeys
        /\ (DOMAIN result.values) \cap AllowedHelmKeys \subseteq DOMAIN result.sanitized
        /\ result.values = Put(Dict1("foo", IntN(1)), "hub", MapN(<<>>)) =>
              result.sanitized = Dict1("hub", MapN(<<>>))

\* C17 happens: {foo: 1, hub: {}} has been sanitized
C17_FooHubSanitized ==
    /\ result.kind = "sanitize"
    /\ result.outcome = "ok"
    /\ result.round = 1
    /\ result.values = Put(Dict1("foo", IntN(1)), "hub", MapN(<<>>))
    /\ DOMAIN result.sanitized = {"hub"}

\* C18: against one cluster state, sanitizing a sanitized tree returns and
\* gives the same tree.
C18_SanitizeIdempotent ==
    (result.kind = "sanitize" /\ result.round = 2) =>
        /\ result.outcome = "ok"
        /\ result.sanitized = result.values

\* C18 happens: the second pass ran on a tree the first pass changed below
\* the top level (a storage class the cluster lacks, an enabled httpRoute)
C18_SecondPassOnChangedTree ==
    /\ result.kind = "sanitize"
    /\ result.round = 2
    /\ result.outcome = "ok"
    /\ DOMAIN result.origin = {"singleuser", "httpRoute"}
    /\ result.values # result.origin
    /\ result.cluster = LiveCluster

\* C19: the sanitized tree has no key named namespace, at top level or
\* directly inside one of its sections.
C19_NoNamespaceKey ==
    (result.kind = "sanitize" /\ result.outcome = "ok") =>
        /\ "namespace" \notin DOMAIN result.sanitized
        /\ \A key \in DOMAIN result.sanitized :
              IsDict(result.sanitized[key]) =>
                  "namespace" \notin DOMAIN result.sanitized[key].v

\* C20: the rbac section of the sanitized tree has no clusterRoleBindings and
\* keeps every other key of the section handed in, with its value.
C20_RbacKeepsAllButClusterRoleBindings ==
    (/\ result.kind = "sanitize" /\ result.outcome = "ok"
     /\ "rbac" \in DOMAIN result.values) =>
        /\ "rbac" \in DOMAIN result.sanitized
        /\ IF IsDict(result.values["rbac"])
           THEN /\ IsDict(result.sanitized["rbac"])
                /\ DOMAIN result.sanitized["rbac"].v =
                      (DOMAIN result.values["rbac"].v) \ {"clusterRoleBindings"}
                /\ \A key \in DOMAIN result.sanitized["rbac"].v :
                      result.sanitized["rbac"].v[key] = result.values["rbac"].v[key]
           ELSE result.sanitized["rbac"] = result.values["rbac"]

\* C20 happens: a section with clusterRoleBindings and enabled: true was
\* sanitized, and enabled: true is what is left of it
C20_RbacBindingsRemoved ==
    /\ result.kind = "sanitize"
    /\ result.outcome = "ok"
    /\ result.round = 1
    /\ "rbac" \in DOMAIN result.values
    /\ IsDict(result.values["rbac"])
    /\ "clusterRoleBindings" \in DOMAIN result.values["rbac"].v
    /\ result.sanitized["rbac"] = MapN(Dict1("enabled", BoolN(TRUE)))

\* C21: create_hub by an owner who has a users row with a limit fails, and
\* creates no hub, whenever the owner has at least that many hubs.
C21_QuotaEnforced ==
    [][(/\ result'.kind = "create"
        /\ calls' # calls
        /\ result'.owner \in DOMAIN users
        /\ users[result'.owner].max_hubs.k = "int"
        /\ Cardinality(UserHubs(result'.owner)) >= users[result'.owner].max_hubs.v) =>
          /\ result'.outcome # "ok"
          /\ DOMAIN hubs' = DOMAIN hubs
          /\ DOMAIN db' = DOMAIN db]_vars

\* C22: a create_hub that fails leaves the store, the session and the hub
\* index as they were.
C22_FailedCreateChangesNothing ==
    [][(result'.kind = "create" /\ calls' # calls /\ result'.outcome # "ok") =>
          /\ db' = db
          /\ orm' = orm
          /\ hubs' = hubs
          /\ insts' = insts]_vars

\* C22 happens: with a hub stored, a create was refused for the owner's
\* namespace prefixes
C22_RefusedForPrefix ==
    /\ result.kind = "create"
    /\ result.outcome = "ValueError"
    /\ Len(result.error) > 3
    /\ result.error[3] = "is not allowed to deploy to namespace"
    /\ DOMAIN db # {}
    /\ result.name \notin DOMAIN db

\* C23: create_hub takes prefix + name for the namespace and refuses it
\* with a ValueError exactly when it is longer than 63, begins or ends with
\* something not alphanumeric, or holds a character that is neither
\* alphanumeric nor a dash.
C23_NamespaceRule ==
    result.kind = "create" =>
        /\ result.outcome \in {"ok", "ValueError"}
        /\ (/\ result.outcome = "ValueError"
            /\ result.error = <<"Invalid namespace name:">> \o prefix \o result.name) <=>
              \/ Len(prefix \o result.name) > 63
              \/ Len(prefix \o result.name) = 0
              \/ ~IsAlnum((prefix \o result.name)[1])
              \/ ~IsAlnum((prefix \o result.name)[Len(prefix \o result.name)])
              \/ \E j \in 1..Len(prefix \o result.name) :
                    ~IsAlnum((prefix \o result.name)[j]) /\ (prefix \o result.name)[j] # "-"
        /\ result.outcome = "ok" => db[result.name].namespace = prefix \o result.name

\* C24: once _deploy_helm_release has returned or raised its values file is
\* gone: but for the death of the process, the only files on disk are those
\* of the helm runs still going.
C24_ValuesFileRemoved ==
    [][~(calls' # calls /\ result' = NoResult /\ helm' = NoHelm) =>
          files' - Cardinality({k \in OpIds : ops'[k].kind = "start" /\ ops'[k].pc = "helm"})
            = files - Cardinality({k \in OpIds : ops[k].kind = "start" /\ ops[k].pc = "helm"})]_vars

\* C25: no httpRoute section of the sanitized tree has enabled = true, at
\* top level or inside one of its sections.
C25_NoHttpRouteEnabled ==
    (result.kind = "sanitize" /\ result.outcome = "ok") =>
        /\ HasDict(result.sanitized, "httpRoute") =>
              DictGet(result.sanitized["httpRoute"].v, "enabled", NoneN) # BoolN(TRUE)
        /\ \A key \in DOMAIN result.sanitized :
              (IsDict(result.sanitized[key]) /\ HasDict(result.sanitized[key].v, "httpRoute")) =>
                  DictGet(result.sanitized[key].v["httpRoute"].v, "enabled", NoneN) # BoolN(TRUE)

\* C26: singleuser.securityContext of the sanitized tree has none of
\* privileged, allowPrivilegeEscalation and capabilities, and has every other
\* key of the section handed in, with its value.
C26_SecurityContextStripped ==
    (/\ result.kind = "sanitize" /\ result.outcome = "ok"
     /\ HasDict(result.values, "singleuser")
     /\ HasDict(result.values["singleuser"].v, "securityContext")) =>
        /\ HasDict(result.sanitized, "singleuser")
        /\ HasDict(result.sanitized["singleuser"].v, "securityContext")
        /\ DOMAIN result.sanitized["singleuser"].v["securityContext"].v =
              (DOMAIN result.values["singleuser"].v["securityContext"].v)
                  \ {"privileged", "allowPrivilegeEscalation", "capabilities"}
        /\ \A key \in DOMAIN result.sanitized["singleuser"].v["securityContext"].v :
              result.sanitized["singleuser"].v["securityContext"].v[key] =
                  result.values["singleuser"].v["securityContext"].v[key]

\* C26 happens: a section with the three keys and runAsUser was sanitized,
\* and runAsUser is what is left of it
C26_OnlyRunAsUserLeft ==
    /\ result.kind = "sanitize"
    /\ result.outcome = "ok"
    /\ result.round = 1
    /\ HasDict(result.values, "singleuser")
    /\ HasDict(result.values["singleuser"].v, "securityContext")
    /\ "capabilities" \in DOMAIN result.values["singleuser"].v["securityContext"].v
    /\ result.sanitized["singleuser"].v["securityContext"] = MapN(Dict1("runAsUser", IntN(1000)))

C28_ToolRunsAreTimeBounded ==
    (\E k \in OpIds : /\ ops[k].kind \in {"start", "stop", "delete"}
                       /\ ops[k].pc \in {"helm", "uninstall"})
      ~> (\A k \in OpIds : ops[k].kind \in {"start", "stop", "delete"} =>
                               ops[k].pc \notin {"helm", "uninstall"})

\* C29: the readiness wait looks at most ceil(start_timeout / 5) times,
\* whatever each look finds, and a start that is in it always leaves it.
C29_ReadinessWaitReturns ==
    /\ [](\A k \in OpIds :
            (ops[k].kind = "start" /\ ops[k].pc = "wait") =>
                (ops[k].elapsed \div WaitInterval) + 1
                    <= (StartTimeout + WaitInterval - 1) \div WaitInterval)
    /\ (\E k \in OpIds : ops[k].kind = "start" /\ ops[k].pc = "wait")
         ~> (\A k \in OpIds : ops[k].kind = "start" => ops[k].pc # "wait")

\* C29 happens: a start sleeps after the last look the timeout allows
C29_SleepsAfterLastPoll ==
    \E k \in OpIds :
        /\ ops[k].kind = "start"
        /\ ops[k].pc = "wait"
        /\ ops[k].elapsed > 0
        /\ ops[k].elapsed + WaitInterval >= StartTimeout

\* C30: within start the steps come in one order, and a step that fails is
\* the last one: a sanitizer that raises leaves the status and launches
\* nothing; the first helm command is launched by the call's first step, with
\* status pending stored; a namespace that cannot be ensured launches nothing;
\* helm repo update is launched only when helm repo add has ended, and helm
\* upgrade only when helm repo update has ended; the readiness wait
\* is entered only after helm upgrade has exited with 0; a deploy that failed
\* leaves no readiness wait behind.
C30_StartOrder ==
    [][/\ (result'.kind = "start" /\ result'.step = "sanitize") =>
             /\ result'.status = result'.was
             /\ helm' = NoHelm
             /\ calls' # calls
       /\ helm'.cmd = "repo" =>
             /\ calls' # calls
             /\ result' = NoResult
             /\ helm'.hub \in DOMAIN orm' => orm'[helm'.hub].status = "pending"
             /\ \E k \in OpIds : /\ ops'[k].kind = "start" /\ ops'[k].pc = "repo"
                                  /\ ops'[k].name = helm'.hub
                                  /\ insts'[ops'[k].name][ops'[k].slot].status = "pending"
       /\ (result'.kind = "start" /\ result'.step = "namespace") =>
             /\ helm' = NoHelm
             /\ calls' # calls
             /\ result'.status = "error"
       /\ helm'.cmd = "update" =>
             /\ calls' = calls
             /\ result' = NoResult
             /\ \E j \in OpIds : /\ ops[j].kind = "start" /\ ops[j].pc = "repo"
                                  /\ ops[j].name = helm'.hub
       /\ helm'.cmd = "upgrade" =>
             /\ calls' = calls
             /\ \E j \in OpIds : /\ ops[j].kind = "start" /\ ops[j].pc = "update"
                                  /\ ops[j].name = helm'.hub
       /\ \A k \in OpIds :
             (/\ ops'[k].kind = "start" /\ ops'[k].pc = "wait"
              /\ ~\E j \in OpIds : /\ ops[j].kind = "start" /\ ops[j].pc = "wait"
                                    /\ ops[j].name = ops'[k].name /\ ops[j].slot = ops'[k].slot
                                    /\ ops[j].elapsed = ops'[k].elapsed) =>
                \E j \in OpIds : /\ ops[j].kind = "start" /\ ops[j].pc \in {"helm", "wait"}
                                 /\ ops[j].name = ops'[k].name /\ ops[j].slot = ops'[k].slot
                                 /\ ops'[k].tool.rc = 0
                                 /\ ops'[k].tool.stdout # <<>>
       /\ (result'.kind = "start" /\ result'.step \in {"repo", "update", "write", "launch", "deploy"}) =>
             /\ result'.outcome = "raised"
             /\ helm' = NoHelm
             /\ Cardinality({k \in OpIds : ops'[k].kind = "start"})
                  < Cardinality({k \in OpIds : ops[k].kind = "start"}) + (IF calls' = calls THEN 0 ELSE 1)
       /\ (result'.kind = "start" /\ result'.step \in {"ready", "timeout"}) =>
             /\ result'.outcome = "ok"
             /\ result'.tool.rc = 0
             /\ calls' = calls]_vars

\* C30 happens: a start has come through every step to the readiness wait
C30_InTheReadinessWait ==
    \E k \in OpIds :
        /\ ops[k].kind = "start"
        /\ ops[k].pc = "wait"
        /\ ops[k].tool.rc = 0
        /\ insts[ops[k].name][ops[k].slot].status = "pending"

\* C31: with namespace creation disabled the namespace step of start changes
\* no namespace; helm is launched only for a namespace that exists; and a
\* start whose namespace is absent ends in status error, with the text that
\* says to create the namespace by hand or to enable creation, and without a
\* helm command.
C31_DisabledPolicyOnlyReads ==
    [][~allow_namespace_creation =>
          /\ namespaces' = namespaces
          /\ helm'.cmd = "repo" => helm'.namespace \in DOMAIN namespaces
          /\ (result'.kind = "start" /\ result'.step = "repo") =>
                Namespace(result'.name) \in DOMAIN namespaces
          /\ (result'.kind = "start" /\ result'.step = "namespace") =>
                /\ result'.outcome = "raised"
                /\ result'.status = "error"
                /\ helm' = NoHelm
                /\ IF Namespace(result'.name) \in DOMAIN namespaces
                   THEN result'.error = ApiErrorText
                   ELSE result'.error \in
                          {ApiErrorText, MissingNamespaceText(Namespace(result'.name))}]_vars

\* C31 happens: creation is disabled, the namespace is absent still, and the
\* start has ended in status error with the text that tells what to do
C31_AbsentNamespaceRefused ==
    /\ ~allow_namespace_creation
    /\ result.kind = "start"
    /\ result.step = "namespace"
    /\ result.status = "error"
    /\ Namespace(result.name) \notin DOMAIN namespaces
    /\ Contains(result.error, <<"Please", "create", "the", "namespace", "manually">>)
    /\ helm = NoHelm

\* C32: with namespace creation enabled no namespace is removed; the
\* namespace step of a start fails only when a call to the cluster fails; a
\* start that came through it leaves the hub's namespace with the labels it
\* had and managed, hub and owner on top, or with those three alone if it
\* was absent, and every other namespace as it was; any other step leaves
\* the namespaces alone.
C32_EnabledPolicyLabels ==
    [][allow_namespace_creation =>
          /\ (result'.kind = "start" /\ result'.step = "namespace") =>
                result'.error = ApiErrorText
          /\ IF calls' # calls /\ (helm'.cmd = "repo"
                                    \/ (result'.kind = "start" /\ result'.step = "repo"))
             THEN \E n \in {IF helm'.cmd = "repo" THEN helm'.hub ELSE result'.name} :
                  \E labels \in {OwnershipLabels(n, insts'[n][hubs'[n]].owner)} :
                     namespaces' =
                        Put(namespaces, Namespace(n),
                            MapN(IF Namespace(n) \in DOMAIN namespaces
                                 THEN Merge(namespaces[Namespace(n)].v, labels)
                                 ELSE labels))
             ELSE namespaces' = namespaces]_vars

\* C33: a start or stop (a stop inside a delete too) that failed inside its
\* try block on a hub whose row is gone cannot append its event; the caller
\* still gets the original error, the status is error and error_message is
\* the operation and the original failure text.
C33_AppendFailureSwallowed ==
    (/\ result.kind \in {"start", "stop", "delete"}
     /\ result.outcome = "raised"
     /\ \/ result.kind = "start" /\ result.step \notin {"client", "sanitize"}
        \/ result.kind \in {"stop", "delete"} /\ result.step # "remove"
     /\ ~result.live) =>
        /\ result.appended = <<>>
        /\ result.error # <<>>
        /\ result.status = "error"
        /\ result.error_message =
              <<"[", IF result.kind = "start" THEN "start" ELSE "stop", "]">>
                  \o FullError(result.error)

\* C33 happens: the hub was deleted while its start waited, the deploy then
\* failed, and the failure came back from an object that has no row
C33_FailedOnDeletedHub ==
    /\ result.kind = "start"
    /\ result.outcome = "raised"
    /\ result.step = "deploy"
    /\ ~result.live
    /\ result.name \notin DOMAIN orm
    /\ result.status = "error"

\* C34: a step appends to a hub's events only if it is a start or stop of that
\* hub that failed, and then exactly one event; every failed start or stop
\* appends one; the events a hub had stay as they were, in the session and in
\* the store, until the hub is deleted.
C34_EventsAppendOnly ==
    [][/\ \A n \in DOMAIN orm \cap DOMAIN orm' :
             /\ Len(orm'[n].events) >= Len(orm[n].events)
             /\ SubSeq(orm'[n].events, 1, Len(orm[n].events)) = orm[n].events
             /\ Len(orm'[n].events) > Len(orm[n].events) =>
                   /\ Len(orm'[n].events) = Len(orm[n].events) + 1
                   /\ result'.kind \in {"start", "stop", "delete"}
                   /\ result'.outcome = "raised"
                   /\ result'.name = n
       /\ \A n \in DOMAIN db \cap DOMAIN db' :
             /\ Len(db'[n].events) >= Len(db[n].events)
             /\ SubSeq(db'[n].events, 1, Len(db[n].events)) = db[n].events
       /\ (/\ result'.kind \in {"start", "stop"}
           /\ result'.outcome = "raised"
           /\ result'.name \in DOMAIN orm \cap DOMAIN orm') =>
              Len(orm'[result'.name].events) = Len(orm[result'.name].events) + 1]_vars

\* C35: a call of the sanitizer leaves the tree it was given as it was.
C35_SanitizeLeavesArgument ==
    result.kind = "sanitize" => result.after = result.values

\* C36: a stop that ended with status stopped had helm uninstall exit with 0
\* or report that the release is not found; after any other exit the stop
\* raised, the status is error and error_message holds the tool's output.
C36_StoppedOnlyWhenUninstalled ==
    (result.kind = "stop" /\ result.step \notin {"client", "launch"}) =>
       IF \/ result.tool.rc = 0
          \/ Contains(Lower(ToolOutput(result.tool)), <<"release:", "not", "found">>)
          \/ Contains(Lower(ToolOutput(result.tool)), <<"release", "not", "found">>)
       THEN result.outcome = "ok" /\ result.status = "stopped"
       ELSE /\ result.outcome = "raised"
            /\ result.status = "error"
            /\ Contains(result.error, ToolOutput(result.tool))
            /\ Contains(result.error_message, ToolOutput(result.tool))

\* C37, for the release a start has just deployed: while a start of a hub is
\* in its readiness wait (helm upgrade --install has exited with 0, the
\* status is pending), the hub's record leaves the store only in a delete
\* that ran helm uninstall to a good end first.
C37_DeployedReleaseTornDownFirst ==
    [][\A n \in (DOMAIN db) \ (DOMAIN db') :
          (\E k \in OpIds : /\ ops[k].kind = "start"
                             /\ ops[k].name = n
                             /\ ops[k].pc = "wait"
                             /\ ops[k].tool.rc = 0) =>
             /\ result'.kind = "delete"
             /\ result'.name = n
             /\ result'.tool # NoTool
             /\ calls' = calls]_vars

\* C38: the payload a start hands to _deploy_helm_release has, besides the
\* chart's required sections, only sections that the hub's values have when
\* the start begins.
C38_PayloadFromCurrentValues ==
    [][helm'.cmd = "repo" =>
          \A k \in OpIds :
             (/\ ops'[k].kind = "start" /\ ops'[k].pc = "repo"
              /\ ops'[k].name = helm'.hub) =>
                \A x \in DOMAIN ops'[k].payload :
                   \/ x \in RequiredFields
                   \/ x \in DOMAIN insts'[ops'[k].name][ops'[k].slot].values]_vars

\* C39: for a hub with no start, stop or delete in flight, the hub object in
\* the index has the status and the url of the hub's record.
C39_IndexAgreesWithRecord ==
    \A n \in DOMAIN hubs :
       (~\E k \in OpIds : ops[k].kind \in {"start", "stop", "delete"} /\ ops[k].name = n) =>
          /\ n \in DOMAIN orm
          /\ insts[n][hubs[n]].status = orm[n].status
          /\ insts[n][hubs[n]].url = orm[n].url

\* C40: a hub object has a non-empty error_message only while its status is
\* error; a start or stop that succeeds leaves error_message empty.
C40_ErrorMessageOnlyInError ==
    /\ \A n \in DOMAIN hubs :
          insts[n][hubs[n]].error_message # <<>> => insts[n][hubs[n]].status = "error"
    /\ (result.kind \in {"start", "stop"} /\ result.outcome = "ok") =>
          result.error_message = <<>>
====
